---- MODULE Spec2Model ----
(***************************************************************************)
(* Audio-reactive visualizer (ferro-gemini): the App component (preset     *)
(* store, generator call, spectrum reducer) and the ThreeScene component   *)
(* (frame loop, smoothed signals, scene effects).                          *)
(*                                                                         *)
(* Numbers.  The program computes in IEEE doubles; the model computes in   *)
(* fixed point.  Values on the [0,1] scale (mood, impact, hueShift) and    *)
(* the accumulators timeRef and cameraAngleRef are held in millionths      *)
(* (One = 1.0); smoothedBassRef is held in thousandths of a byte level     *)
(* (SbOne = 1.0).  Band levels fed to a frame are whole byte levels.       *)
(* Products are rounded down to the unit.                                  *)
(***************************************************************************)
EXTENDS Integers, Sequences, FiniteSets, TLC

VARIABLES
  config,           \* App state: the stored preset (useState<VisualConfig>)
  configIsDefault,  \* the stored preset is the DEFAULT_CONFIG object itself
  prompt,           \* App state: prompt text
  isGenerating,     \* App state
  genPending,       \* a generateVisualConfig call is awaiting the generator
  effectPending,    \* config was replaced; ThreeScene's effects not yet run
  sceneConfig,      \* the config captured by the running animate closure
  geomDep,          \* config.geometryType as last seen by the geometry effect
  meshGeometry,     \* particlesRef.current.geometry
  particlesVisible, \* particlesRef.current.visible
  surfaceVisible,   \* surfaceMeshRef.current.visible
  lastBranch,       \* generation branch taken by the latest frame tick
  lastAudio,        \* audioDataRef.current as read by the latest frame tick
  timeRef,
  smoothedBassRef,
  moodRef,
  hueShiftRef,
  cameraAngleRef,
  normalizedBass,   \* impact exposed by the latest frame tick
  mood,             \* mood exposed by the latest frame tick
  mouseRef,         \* the eased pointer, normalized to -1..1
  targetMouseRef,   \* the pointer as the last mousemove event gave it
  originalPositions,\* originalPositionsRef.current (rest vertices)
  livePositions,    \* the surface geometry's position attribute
  frameReads,       \* the preset fields as the latest frame tick read them
  pc,               \* the block of animate to run next (0: between frames)
  written,          \* per smoothed signal: its writes in the current frame
  readEarly,        \* signals read in the current frame before their write
  frames,           \* frame callbacks run since the initial state
  changes,          \* preset replacements since the initial state
  lastOutcome,      \* what the generator did in the latest settled call
  lastResult,       \* how the latest generateVisualConfig promise settled
  dataArray,        \* analyser spectrum read by the latest analyse step
  audioData,        \* audioDataRef.current as written by analyse
  mounted,          \* App (and ThreeScene inside it) is mounted
  loop,             \* runs of the [config] effect after the first (scenes built)
  scheduledFrames,  \* pending requestAnimationFrame(animate) callbacks
  frameIdRef,       \* frameIdRef.current
  sourceType,       \* App state: "mic", "file" or "null"
  isPlaying,        \* App state
  audioName,        \* App state
  analyserRef,      \* the AudioContext and its analyser exist
  sourceNodeRef,    \* sourceNodeRef.current: a source node or NoNode
  connected,        \* the source nodes connected to the analyser
  audioElemRef,     \* audioElemRef.current: an element id, 0 for null
  micPending,       \* handleMicInput calls awaiting getUserMedia
  playPending,      \* elements whose play() promise is pending
  analysisLoops,    \* pending requestAnimationFrame(analyse) callbacks
  requestRef,       \* requestRef.current
  elemPlaying,      \* the element of audioElemRef is playing
  sourceChosen,     \* Use Mic or Upload ran after the latest Change Source
  ctxState,         \* audioContextRef.current.state ("none" before creation)
  resumeRequested,  \* ctx.resume() was called and has not settled
  resumeWaiters,    \* the handlers waiting in await ctx.resume(), in call order
  elemLoaded,       \* the element of audioElemRef still has its file as src
  elemAttached      \* a MediaElementSource was created for that element

vars == <<config, configIsDefault, prompt, isGenerating, genPending,
          effectPending, sceneConfig, geomDep, meshGeometry, particlesVisible,
          surfaceVisible, lastBranch, lastAudio, timeRef, smoothedBassRef,
          moodRef, hueShiftRef, cameraAngleRef, normalizedBass, mood, mouseRef,
          targetMouseRef, originalPositions, livePositions, frameReads, pc,
          written, readEarly, frames, changes, lastOutcome, lastResult,
          dataArray, audioData, mounted, loop, scheduledFrames, frameIdRef,
          sourceType, isPlaying, audioName, analyserRef, sourceNodeRef,
          connected, audioElemRef, micPending, playPending, analysisLoops,
          requestRef, elemPlaying, sourceChosen, ctxState,
          resumeRequested, resumeWaiters, elemLoaded, elemAttached>>

appVars == <<config, configIsDefault, prompt, isGenerating, genPending,
             effectPending, changes, lastOutcome, lastResult>>

sceneVars == <<sceneConfig, geomDep, meshGeometry, particlesVisible,
               surfaceVisible, lastBranch, lastAudio, timeRef, smoothedBassRef,
               moodRef, hueShiftRef, cameraAngleRef, normalizedBass, mood,
               mouseRef, targetMouseRef, originalPositions, livePositions,
               frameReads, pc, written, readEarly, frames, loop,
               scheduledFrames, frameIdRef>>

stepVars == <<pc, written, readEarly>>

loopVars == <<loop, scheduledFrames, frameIdRef>>

audioVars == <<sourceType, isPlaying, audioName, analyserRef, sourceNodeRef,
               connected, audioElemRef, micPending, playPending, analysisLoops,
               requestRef, elemPlaying, sourceChosen, ctxState,
          resumeRequested, resumeWaiters, elemLoaded, elemAttached>>

reducerVars == <<dataArray, audioData>>

----------------------------------------------------------------------------
(* Bounds *)

\* frame callbacks plus preset replacements explored from an initial state
MaxEvents == 3

\* silent frames already run in the warmed-up initial state
WarmTicks == 4998

\* full-scale frames already run in the loud initial state
LoudTicks == 60

\* longest sample the reducer is applied to as a function of its sample
MaxLength == 64

----------------------------------------------------------------------------
(* Fixed-point units *)

One == 1000 * 1000

SbOne == 1000

Min(a, b) == IF a < b THEN a ELSE b

Max(a, b) == IF a > b THEN a ELSE b

----------------------------------------------------------------------------
(* Smoothed signals: the analysis block at the head of animate *)

\* smoothedBassRef.current += (audio.bass - smoothedBassRef.current) * 0.15
\* mutant: the tracker follows rising bass only
SmoothBass_attackOnly(sb, bass) == sb + Max(0, ((bass * SbOne - sb) * 15) \div 100)

SmoothBass(sb, bass) == sb + (((bass * SbOne - sb) * 15) \div 100)

\* mutant: the quotient without Math.min
NormalizeBass_unclamped(sb) == (sb \div 255) * (One \div SbOne)

\* normalizedBass = Math.min(smoothedBassRef.current / 255, 1.0)
NormalizeBass(sb) ==
  IF sb >= 255 * SbOne THEN One ELSE (sb * (One \div SbOne)) \div 255

\* currentEnergy = (audio.bass + audio.mid + audio.treble) / (255 * 3)
CurrentEnergy(a) == (((a.bass + a.mid + a.treble) * 10000) \div (255 * 3)) * 100

\* moodRef.current += (currentEnergy - moodRef.current) * 0.02
MoodStep(mr, a) == mr + (((CurrentEnergy(a) - mr) * 2) \div 100)

\* mood = Math.max(0, Math.min(1, moodRef.current * 1.5))
ExposeMood(mr) == Max(0, Min(One, (mr * 15) \div 10))

\* hueShiftRef.current += 0.0002 + mood * 0.001;
\* if (hueShiftRef.current > 1) hueShiftRef.current -= 1
HueRaise(h, m) == h + 200 + (m \div 1000)

HueWrap(raised) == IF raised > One THEN raised - One ELSE raised

HueStep(h, m) == HueWrap(HueRaise(h, m))

\* mutant: camSpeed without its constant term
CamStep_moodOnly(c, m) == c + ((m * 5) \div 1000)

\* camSpeed = 0.001 + mood * 0.005; cameraAngleRef.current += camSpeed
CamStep(c, m) == c + 1000 + ((m * 5) \div 1000)

----------------------------------------------------------------------------
(* Presets.  A preset is a function from field names to values; a field    *)
(* missing from a parsed object is missing from the function's domain.     *)
(* particleSize, rotationSpeed, sensitivity and bloomIntensity are held in *)
(* tenths.                                                                 *)

\* Object.values(VisualizerMode), in declaration order
VisualizerMode == <<"ORBIT", "WAVE", "GRID", "CHAOS", "FERROFLUID", "SURFACE">>

\* Object.values(GeometryType), in declaration order
GeometryType == <<"BOX", "SPHERE", "TETRAHEDRON", "OCTAHEDRON", "TORUS", "CONE">>

Range(s) == {s[i] : i \in DOMAIN s}

\* the fields of interface VisualConfig
VisualConfigFields ==
  {"mode", "geometryType", "primaryColor", "secondaryColor", "backgroundColor",
   "particleSize", "rotationSpeed", "sensitivity", "bloomIntensity",
   "description"}

INITIAL_CONFIG ==
  [mode |-> "FERROFLUID", geometryType |-> "SPHERE",
   primaryColor |-> "#00d4ff", secondaryColor |-> "#ff0055",
   backgroundColor |-> "#2a1b3d", particleSize |-> 6, rotationSpeed |-> 5,
   sensitivity |-> 12, bloomIntensity |-> 12,
   description |-> "Initialize visuals..."]

DEFAULT_CONFIG ==
  [mode |-> "ORBIT", geometryType |-> "BOX",
   primaryColor |-> "#00ffcc", secondaryColor |-> "#ff00ff",
   backgroundColor |-> "#1a1a2e", particleSize |-> 5, rotationSpeed |-> 5,
   sensitivity |-> 15, bloomIntensity |-> 10,
   description |-> "Default cyberpunk aesthetic"]

\* property read: a missing field reads as undefined
Field(p, f) == IF f \in DOMAIN p THEN p[f] ELSE "undefined"

\* { ...prev, [f]: v }
Spread(p, f, v) == [g \in DOMAIN p \cup {f} |-> IF g = f THEN v ELSE p[g]]

\* Array.prototype.indexOf over a 0-based array; -1 when absent
IndexOf(arr, v) ==
  IF \E i \in DOMAIN arr : arr[i] = v
  THEN (CHOOSE i \in DOMAIN arr : arr[i] = v) - 1
  ELSE -1

\* newIndex of cycleMode / cycleGeometry
CycleIndex(len, currentIndex, direction) ==
  LET stepped == IF direction = "left" THEN currentIndex - 1 ELSE currentIndex + 1
      low == IF stepped < 0 THEN len - 1 ELSE stepped
  IN  IF low >= len THEN 0 ELSE low

----------------------------------------------------------------------------
(* The generator call (geminiService).  A response text is modelled by     *)
(* whether it is empty, whether it parses, and the object it parses to.    *)

ParsedFull ==
  [mode |-> "SURFACE", geometryType |-> "TORUS",
   primaryColor |-> "#102030", secondaryColor |-> "#405060",
   backgroundColor |-> "#0a1020", particleSize |-> 10, rotationSpeed |-> 10,
   sensitivity |-> 20, bloomIntensity |-> 15, description |-> "generated"]

\* parseable text that lacks fields
ParsedPartial == [mode |-> "WAVE", primaryColor |-> "#102030"]

\* parseable text with a mode outside the enum
ParsedBadEnum == Spread(ParsedFull, "mode", "SPIRAL")

\* parseable text with a negative sensitivity (-1.0)
ParsedNegative == Spread(ParsedFull, "sensitivity", -10)

NoDocument == [description |-> "unparseable"]

\* what ai.models.generateContent can do
GeneratorOutcomes ==
  {[kind |-> "throws", empty |-> TRUE, wellFormed |-> FALSE, doc |-> NoDocument],
   [kind |-> "text", empty |-> TRUE, wellFormed |-> FALSE, doc |-> NoDocument],
   [kind |-> "text", empty |-> FALSE, wellFormed |-> FALSE, doc |-> NoDocument]}
  \cup
  {[kind |-> "text", empty |-> FALSE, wellFormed |-> TRUE, doc |-> d] :
     d \in {ParsedFull, ParsedPartial, ParsedBadEnum, ParsedNegative}}

\* JSON.parse(response.text): the parsed object, or a SyntaxError
JSONParse(o) ==
  IF o.wellFormed THEN [threw |-> FALSE, value |-> o.doc]
  ELSE [threw |-> TRUE, value |-> NoDocument]

Resolved(v, isDefault) == [settled |-> "resolved", value |-> v, isDefault |-> isDefault]

Rejected == [settled |-> "rejected", value |-> NoDocument, isDefault |-> FALSE]

\* mutant: the catch block rethrows the generator's error
generateVisualConfig_rethrows(o) ==
  IF o.kind = "throws" THEN Rejected
  ELSE IF ~o.empty
       THEN IF JSONParse(o).threw THEN Resolved(DEFAULT_CONFIG, TRUE)
            ELSE Resolved(JSONParse(o).value, FALSE)
       ELSE Resolved(DEFAULT_CONFIG, TRUE)

\* mutant: JSON.parse outside the try block
generateVisualConfig_parseUncaught(o) ==
  IF o.kind = "throws" THEN Resolved(DEFAULT_CONFIG, TRUE)
  ELSE IF ~o.empty
       THEN IF JSONParse(o).threw THEN Rejected
            ELSE Resolved(JSONParse(o).value, FALSE)
       ELSE Resolved(DEFAULT_CONFIG, TRUE)

\* generateVisualConfig: try { await generateContent; if (response.text) return
\* JSON.parse(response.text); return DEFAULT_CONFIG } catch { return DEFAULT_CONFIG }
generateVisualConfig(o) ==
  IF o.kind = "throws" THEN Resolved(DEFAULT_CONFIG, TRUE)
  ELSE IF ~o.empty
       THEN IF JSONParse(o).threw THEN Resolved(DEFAULT_CONFIG, TRUE)
            ELSE Resolved(JSONParse(o).value, FALSE)
       ELSE Resolved(DEFAULT_CONFIG, TRUE)

NoOutcome == [kind |-> "none", empty |-> TRUE, wellFormed |-> FALSE, doc |-> NoDocument]

NoResult == [settled |-> "none", value |-> NoDocument, isDefault |-> FALSE]

----------------------------------------------------------------------------
(* App handlers *)

Prompts == {"", "  ", "liquid metal bass"}

\* prompt.trim() is empty
Blank(p) == p \in {"", "  "}

\* setConfig(next): React re-renders ThreeScene and re-runs its [config] effect
\* unless next is the object already stored.  React runs the effects of a
\* commit before it renders the next state update, so no update is applied
\* while effects are pending.
setConfig(next, nextIsDefault) ==
  /\ ~effectPending
  /\ config' = next
  /\ configIsDefault' = nextIsDefault
  /\ effectPending' = ~(nextIsDefault /\ configIsDefault)
  /\ changes' = changes + 1

\* onChange of the prompt input (disabled while isGenerating)
setPrompt(p) ==
  /\ mounted
  /\ ~effectPending
  /\ ~isGenerating
  /\ p # prompt
  /\ prompt' = p
  /\ UNCHANGED <<config, configIsDefault, isGenerating, genPending,
                 effectPending, changes, lastOutcome, lastResult>>
  /\ UNCHANGED sceneVars
  /\ UNCHANGED <<reducerVars, audioVars, mounted>>

\* modes[newIndex] as cycleMode computes it from the preset cfg
CycledMode(cfg, direction) ==
  LET modes == VisualizerMode
      currentIndex == IndexOf(modes, Field(cfg, "mode"))
      newIndex == CycleIndex(Len(modes), currentIndex, direction)
  IN  modes[newIndex + 1]

cycleMode(direction) ==
  LET modes == VisualizerMode
      currentIndex == IndexOf(modes, Field(config, "mode"))
      newIndex == CycleIndex(Len(modes), currentIndex, direction)
  IN  /\ mounted
      /\ frames + changes < MaxEvents
      /\ modes[newIndex + 1] = CycledMode(config, direction)
      /\ setConfig(Spread(config, "mode", modes[newIndex + 1]), FALSE)
      /\ UNCHANGED <<prompt, isGenerating, genPending, lastOutcome, lastResult>>
      /\ UNCHANGED sceneVars
      /\ UNCHANGED <<reducerVars, audioVars, mounted>>

cycleGeometry(direction) ==
  LET geometries == GeometryType
      currentIndex == IndexOf(geometries, Field(config, "geometryType"))
      newIndex == CycleIndex(Len(geometries), currentIndex, direction)
  IN  /\ mounted
      /\ frames + changes < MaxEvents
      /\ setConfig(Spread(config, "geometryType", geometries[newIndex + 1]), FALSE)
      /\ UNCHANGED <<prompt, isGenerating, genPending, lastOutcome, lastResult>>
      /\ UNCHANGED sceneVars
      /\ UNCHANGED <<reducerVars, audioVars, mounted>>

\* handleGenerate up to its await (the button and the input are disabled
\* while isGenerating)
handleGenerate ==
  /\ mounted
  /\ ~effectPending
  /\ ~isGenerating
  /\ ~genPending
  /\ ~Blank(prompt)
  /\ frames + changes < MaxEvents
  /\ isGenerating' = TRUE
  /\ genPending' = TRUE
  /\ UNCHANGED <<config, configIsDefault, prompt, effectPending, changes,
                 lastOutcome, lastResult>>
  /\ UNCHANGED sceneVars
  /\ UNCHANGED <<reducerVars, audioVars, mounted>>

\* handleGenerate after its await: setConfig(configResult); setIsGenerating(false).
\* A rejected promise ends the handler at the await.  The continuation runs
\* after an unmount too; React then drops both state updates.
generateSettles(o) ==
  LET r == generateVisualConfig(o)
  IN  /\ genPending
      /\ ~effectPending
      /\ genPending' = FALSE
      /\ lastOutcome' = o
      /\ lastResult' = r
      /\ IF r.settled = "resolved" /\ mounted
         THEN /\ setConfig(r.value, r.isDefault)
              /\ isGenerating' = FALSE
         ELSE UNCHANGED <<config, configIsDefault, effectPending, changes,
                          isGenerating>>
      /\ UNCHANGED prompt
      /\ UNCHANGED sceneVars
      /\ UNCHANGED <<reducerVars, audioVars, mounted>>

----------------------------------------------------------------------------
(* Fixed-point geometry.  Lengths, coordinates, scales and the values of   *)
(* sin and cos are integers in thousandths (Milli); angles are integers in *)
(* millionths of a radian.                                                  *)

Milli == 10 * 100

\* Math.PI, in millionths of a radian
Pi == 3141593

TwoPi == 6283185

HalfPi == 1570796

Abs(a) == IF a < 0 THEN 0 - a ELSE a

\* a * b for two values in thousandths (rounded down)
Mul(a, b) == (a * b) \div Milli

\* Math.sin of an angle in millionths of a radian, in thousandths: the
\* angle is reduced to the first quadrant and the series of the sine is
\* summed to the seventh power in ten-thousandths
Sin(x) ==
  LET r == x % TwoPi
      lower == r >= Pi
      s == IF lower THEN r - Pi ELSE r
      f == IF s > HalfPi THEN Pi - s ELSE s
      y == (f + 50) \div 100
      y2 == (y * y) \div 10000
      t3 == 10000 - (y2 \div 42)
      t2 == 10000 - ((y2 * t3) \div 200000)
      t1 == 10000 - ((y2 * t2) \div 60000)
      v == (((y * t1) \div 10000) + 5) \div 10
  IN  IF lower THEN 0 - v ELSE v

\* Math.cos
Cos(x) == Sin(x + HalfPi)

\* Math.sqrt of a non-negative integer, rounded down (Newton's iteration)
RECURSIVE SqrtFrom(_, _)
SqrtFrom(n, g) ==
  LET h == (g + (n \div g)) \div 2
  IN  IF h >= g THEN g ELSE SqrtFrom(n, h)

Sqrt(n) == IF n <= 0 THEN 0 ELSE SqrtFrom(n, n)

\* Math.sqrt(dx*dx + dy*dy) for dx, dy in thousandths; operands beyond 30
\* units are squared in hundredths to stay inside the integer width
Hypot(dx, dy) ==
  IF Abs(dx) < 30 * Milli /\ Abs(dy) < 30 * Milli
  THEN Sqrt(dx * dx + dy * dy)
  ELSE 10 * Sqrt((dx \div 10) * (dx \div 10) + (dy \div 10) * (dy \div 10))

\* simpleNoise(x, y, z), arguments in millionths of a radian
simpleNoise(x, y, z) ==
  Mul(Sin(x), Cos(y)) + Mul(Sin(y), Cos(z)) + Mul(Sin(z), Cos(x))

\* smoothstep(min, max, value), all in thousandths
smoothstep(min, max, value) ==
  LET x == Max(0, Min(Milli, ((value - min) * Milli) \div (max - min)))
  IN  Mul(Mul(x, x), 3 * Milli - 2 * x)

----------------------------------------------------------------------------
(* ThreeScene: updateParticles, for one instance i of a mesh of count      *)
(* instances.  time, mood and the pointer are in millionths; positions and *)
(* scales in thousandths; the preset's scalar fields in tenths.            *)

\* i * a for an angle a in millionths of a radian, reduced below TwoPi at
\* every doubling so that the product stays inside the integer width
RECURSIVE AngleTimes(_, _)
AngleTimes(i, a) ==
  IF i = 0 THEN 0
  ELSE LET d == (2 * AngleTimes(i \div 2, a)) % TwoPi
       IN  IF i % 2 = 1 THEN (d + (a % TwoPi)) % TwoPi ELSE d

\* angleIncrement = Math.PI * 2 * goldenRatio, in millionths of a radian
angleIncrement == 10166407

\* data[Math.floor((i / count) * data.length)] || 0
FreqValue(data, i, count) ==
  IF Len(data) = 0 THEN 0 ELSE data[((i * Len(data)) \div count) + 1]

\* freqValue / 255
NormalizedFreq(data, i, count) == (FreqValue(data, i, count) * Milli) \div 255

\* the preset holds the field f (a read of a missing field is undefined,
\* and arithmetic on undefined is NaN)
Defined(cfg, f) == f \in DOMAIN cfg

\* a scalar preset field (tenths) in thousandths; 0 stands in for NaN, and
\* every result computed from it carries finite = FALSE
Scalar(cfg, f) == IF Defined(cfg, f) THEN cfg[f] * 100 ELSE 0

\* Math.ceil(Math.pow(count, 1/3))
GridSize(count) == CHOOSE g \in 1..count : g * g * g >= count /\ (g - 1) * (g - 1) * (g - 1) < count

\* the Ferrofluid branch: the point of the golden-angle sphere, pushed out
\* by the spike.  With u = 1 - 2t, cos(acos(u)) is u and sin(acos(u)) is
\* sqrt((1 - u)(1 + u)); t2 is 2t in millionths
Ferrofluid(i, count, time, a, m) ==
  LET t2 == ((2000 * i) \div count) * Milli + ((((2000 * i) % count) * Milli) \div count)
      u == (One - t2) \div Milli
      sinInclination ==
        Sqrt(((Min(t2, 2 * One - t2) \div 10) * (Max(t2, 2 * One - t2) \div Milli)) \div 100)
      azimuth == AngleTimes(i, angleIncrement)
      radiusBase == 12 * Milli
      sx == Mul(sinInclination, Cos(azimuth))
      sy == Mul(sinInclination, Sin(azimuth))
      sz == u
      noiseAmp == 4 * Milli + ((a.bass * 8 * Milli) \div 255)
      n1 == simpleNoise(sx * 3000 + time, sy * 3000 + time, sz * 3000)
      n2 == simpleNoise(sx * 10000, sy * 10000 + time * 2, sz * 10000)
      spike == Max(0, n1 + (n2 \div 2))
      displacement == radiusBase + Mul(Mul(spike, noiseAmp), 500 + m)
  IN  [x |-> Mul(sx, displacement), y |-> Mul(sy, displacement),
       z |-> Mul(sz, displacement),
       scaleFactor |-> 1200 - ((displacement - radiusBase) \div 10)]

\* the Orbit branch
Orbit(i, time, cfg, a, m) ==
  LET rand1 == Sin(AngleTimes(i, 12340000))
      theta == i * 100000 + (time \div Milli) * (Scalar(cfg, "rotationSpeed") + m)
      expansion == (a.bass * (5 * Milli + m * 10)) \div 255
      radius == 10 * Milli + expansion + Mul(Mul(rand1, m), 5 * Milli)
      second == i * 50000 + (time \div 10)
  IN  [x |-> Mul(Mul(Sin(theta), radius), Cos(second)),
       y |-> Mul(Mul(Cos(theta), radius), Sin(second)),
       z |-> Sin(i * 100000) * 10 + ((a.mid * 5 * Milli) \div 255),
       scaleFactor |-> Milli]

\* the Wave branch
Wave(i, time, data, count, a, m) ==
  LET x == ((i % 50) - 25) * 1500
      waveHeight == 5 * Milli + Mul((a.bass * 10 * Milli) \div 255, m)
      waveFreq == 200 + (m \div 2)
      phase == x * waveFreq + (time \div Milli) * (2 * Milli + m * 2)
  IN  [x |-> x,
       y |-> Mul(Sin(phase), waveHeight) + NormalizedFreq(data, i, count) * 10,
       z |-> ((i \div 50) - 20) * 1500,
       scaleFactor |-> Milli]

\* the Grid branch; rnd holds the three Math.random() draws of the jitter;
\* the test mood > 0.7 is made on the mood itself (millionths)
Grid(i, count, a, moodMicro, rnd) ==
  LET m == moodMicro \div Milli
      gridSize == GridSize(count)
      spacing == 3 * Milli + Mul((a.bass * Milli) \div 100, m)
      offset == (gridSize * spacing) \div 2
      jitter(r) == IF moodMicro > 700 * Milli THEN (r - 500) \div 2 ELSE 0
  IN  [x |-> (i % gridSize) * spacing - offset + jitter(rnd.x),
       y |-> ((i \div gridSize) % gridSize) * spacing - offset + jitter(rnd.y),
       z |-> (i \div (gridSize * gridSize)) * spacing - offset + jitter(rnd.z),
       scaleFactor |-> Milli]

\* the Chaos branch
Chaos(i, a, m) ==
  LET explosion == Milli + Mul((a.bass * Milli) \div 50, 500 + m)
  IN  [x |-> Mul(Sin(AngleTimes(i, 1000000)) * 20, explosion),
       y |-> Mul(Cos(AngleTimes(i, 1000000)) * 20, explosion),
       z |-> Mul(Sin(AngleTimes(i, 500000)) * 20, explosion),
       scaleFactor |-> Milli]

\* the if-chain over cfg.mode: the position before the pointer acts (x, y
\* and z stay 0 when no branch matches)
ModePosition(i, count, time, cfg, a, moodMicro, rnd) ==
  LET mode == Field(cfg, "mode")
      m == moodMicro \div Milli
  IN  IF mode = "FERROFLUID" THEN Ferrofluid(i, count, time, a, m)
      ELSE IF mode = "ORBIT" THEN Orbit(i, time, cfg, a, m)
      ELSE IF mode = "WAVE" THEN Wave(i, time, a.frequencyData, count, a, m)
      ELSE IF mode = "GRID" THEN Grid(i, count, a, moodMicro, rnd)
      ELSE IF mode = "CHAOS" THEN Chaos(i, a, m)
      ELSE [x |-> 0, y |-> 0, z |-> 0, scaleFactor |-> Milli]

\* the weights of cPrimary, cSecondary and white in a color built by lerp
\* calls, in thousandths: c.lerp(target, t) scales every weight by 1 - t
\* and adds t to the target's
LerpSecondary(c, t) ==
  [p |-> Mul(c.p, Milli - t), s |-> Mul(c.s, Milli - t) + t, w |-> Mul(c.w, Milli - t)]

LerpWhite(c, t) ==
  [p |-> Mul(c.p, Milli - t), s |-> Mul(c.s, Milli - t), w |-> Mul(c.w, Milli - t) + t]

\* the color block of the loop body; the tests mood > 0.6 and mood > 0.3
\* are made on the mood itself (millionths)
MixedColor(nf, a, moodMicro, near) ==
  LET mixFactor == IF moodMicro > 600 * Milli THEN smoothstep(400, 600, nf) ELSE nf
      mixed == LerpSecondary([p |-> Milli, s |-> 0, w |-> 0], mixFactor)
      flashed == IF a.bass > 230 /\ moodMicro > 300 * Milli
                 THEN LerpWhite(mixed, nf \div 2) ELSE mixed
  IN  IF near THEN LerpWhite(flashed, 300) ELSE flashed

\* mesh.count of the InstancedMesh the scene builds
PARTICLE_COUNT == 2500

\* one pass of the loop body of updateParticles: the matrix position, the
\* scale and the color written for instance i.  finite is FALSE when x and
\* y are NaN (dx / dist with dist = 0 is 0 / 0, or theta computed from a
\* missing rotationSpeed); scaleFinite is FALSE when scale is NaN
updateParticles(i, count, time, cfg, a, moodMicro, mouse, rnd) ==
  LET nf == NormalizedFreq(a.frequencyData, i, count)
      base == ModePosition(i, count, time, cfg, a, moodMicro, rnd)
      scale0 == Mul(Mul(Scalar(cfg, "particleSize"), 500 + nf), base.scaleFactor)
      mouseWorldX == (mouse.x * 20) \div Milli
      mouseWorldY == (mouse.y * 20) \div Milli
      dx == base.x - mouseWorldX
      dy == base.y - mouseWorldY
      dist == Hypot(dx, dy)
      repulsionRadius == 10 * Milli
      baseFinite == Field(cfg, "mode") = "ORBIT" => Defined(cfg, "rotationSpeed")
      near == baseFinite /\ dist < repulsionRadius
      force == (Milli - (dist \div 10)) * 5
      scale1 == IF near THEN (scale0 * 3) \div 2 ELSE scale0
      scale2 == IF moodMicro > 600 * Milli /\ nf > 500 THEN (scale1 * 3) \div 2
                ELSE scale1
  IN  [finite |-> baseFinite /\ ~(near /\ dist = 0),
       scaleFinite |-> Defined(cfg, "particleSize"),
       x |-> IF near /\ dist > 0 THEN base.x + ((dx * force) \div dist) ELSE base.x,
       y |-> IF near /\ dist > 0 THEN base.y + ((dy * force) \div dist) ELSE base.y,
       z |-> base.z,
       scale |-> scale2,
       color |-> MixedColor(nf, a, moodMicro, near)]

----------------------------------------------------------------------------
(* ThreeScene: the frame tick and the effects *)

\* audioDataRef.current as a frame can read it: the initial silence, and what
\* analyse stores for a full-scale spectrum and for a spectrum with energy
\* in the bass band only (the 25 lowest of 256 bins)
AudioInputs ==
  {[frequencyData |-> [i \in 1..128 |-> 0], bass |-> 0, mid |-> 0, treble |-> 0],
   [frequencyData |-> [i \in 1..256 |-> 255], bass |-> 255, mid |-> 255, treble |-> 255],
   [frequencyData |-> [i \in 1..256 |-> IF i <= 25 THEN 240 ELSE 0],
    bass |-> 240, mid |-> 0, treble |-> 0]}

Silence ==
  [frequencyData |-> [i \in 1..128 |-> 0], bass |-> 0, mid |-> 0, treble |-> 0]

\* what analyse stores for a full-scale spectrum
FullScale ==
  [frequencyData |-> [i \in 1..256 |-> 255], bass |-> 255, mid |-> 255, treble |-> 255]

\* band levels beyond the byte range, as a frame would read them from
\* audioDataRef.current if they were stored there
MagnitudeInputs ==
  {[frequencyData |-> [i \in 1..256 |-> 255], bass |-> 20000, mid |-> 20000,
    treble |-> 20000],
   [frequencyData |-> [i \in 1..256 |-> 255], bass |-> 1000, mid |-> 0,
    treble |-> 0]}

\* a Vector2 or Vector3 eased toward a target: v.lerp(target, 0.1)
Lerp(v, target) ==
  [k \in DOMAIN v |-> v[k] + ((target[k] - v[k]) \div 10)]

\* three vertices of IcosahedronGeometry(10, 20), by their index in the
\* position attribute: the first triangle of the first face, whose third
\* vertex is the icosahedron's corner (-1, t, 0) scaled to radius 10
RestVertices ==
  (0 :> [finite |-> TRUE, x |-> -5553, y |-> 8313, z |-> 257]) @@
  (1 :> [finite |-> TRUE, x |-> -5137, y |-> 8569, z |-> 416]) @@
  (2 :> [finite |-> TRUE, x |-> -5257, y |-> 8507, z |-> 0])

\* the scalars of the vertex loop body for vertex i with rest position o;
\* finite is FALSE when displacement and totalScale are NaN (sensitivity
\* missing)
SurfaceScale(i, o, time, cfg, a, moodMicro, mouse) ==
  LET m == moodMicro \div Milli
      data == a.frequencyData
      freqVal == (data[(i % Len(data)) + 1] * Milli) \div 255
      n == simpleNoise(o.x * 200 + time, o.y * 200 + time, o.z * 200)
      displacement == Milli + Mul(freqVal \div 2, Scalar(cfg, "sensitivity"))
                        + Mul(n \div 5, m)
      mouseWorldX == (mouse.x * 15) \div Milli
      mouseWorldY == (mouse.y * 15) \div Milli
      distToMouse == Hypot(o.x - mouseWorldX, o.y - mouseWorldY)
      mouseFactor == IF distToMouse < 8 * Milli
                     THEN (8 * Milli - distToMouse) \div 4 ELSE 0
  IN  [finite |-> Defined(cfg, "sensitivity"), displacement |-> displacement,
       distToMouse |-> distToMouse, mouseFactor |-> mouseFactor,
       totalScale |-> displacement + mouseFactor]

\* the body of the vertex loop for vertex i with rest position o; finite is
\* FALSE when the three coordinates are NaN
DeformVertex(i, o, time, cfg, a, moodMicro, mouse) ==
  LET sc == SurfaceScale(i, o, time, cfg, a, moodMicro, mouse)
  IN  [finite |-> sc.finite,
       x |-> Mul(o.x, sc.totalScale), y |-> Mul(o.y, sc.totalScale),
       z |-> Mul(o.z, sc.totalScale)]

\* the preset fields animate and updateParticles read
FieldsRead ==
  {"mode", "primaryColor", "secondaryColor", "backgroundColor", "particleSize",
   "rotationSpeed", "sensitivity", "bloomIntensity"}

\* mutant: mode read from the stored preset, the rest from the closure
ReadsOf_liveMode(cfg) ==
  [f \in FieldsRead |-> IF f = "mode" THEN Field(config, f) ELSE Field(cfg, f)]

ReadsOf(cfg) == [f \in FieldsRead |-> Field(cfg, f)]

\* the branch of the mode switch in animate and of the chain in updateParticles
GenerationBranch(cfg) ==
  LET m == Field(cfg, "mode")
  IN  IF m = "SURFACE" THEN "SURFACE"
      ELSE IF m \in {"FERROFLUID", "ORBIT", "WAVE", "GRID", "CHAOS"} THEN m
      ELSE "NONE"

\* the geometry built by the switch of the [config.geometryType] effect
GeometryFor(g) ==
  IF g \in {"SPHERE", "TETRAHEDRON", "OCTAHEDRON", "TORUS", "CONE"} THEN g
  ELSE "BOX"

\* a handle requestAnimationFrame has not handed out among used (the
\* browser never repeats a handle; the smallest unused one stands for it)
FreshId(used) ==
  CHOOSE n \in 1..(Cardinality(used) + 1) :
    n \notin used /\ \A k \in 1..(n - 1) : k \in used

\* mutant: the cleanup leaves the scheduled callback in place
cancelAnimationFrame_ignored(queue, id) == queue

\* cancelAnimationFrame(id) over the queue of pending callbacks
cancelAnimationFrame(queue, id) == {c \in queue : c.id # id}

\* the browser takes a pending animate callback off its queue and runs it;
\* its first statement is frameIdRef.current = requestAnimationFrame(animate),
\* which queues the same closure again
FrameCallbackRuns ==
  \E c \in scheduledFrames :
    LET id == FreshId({d.id : d \in scheduledFrames} \cup {frameIdRef})
    IN  /\ scheduledFrames' = (scheduledFrames \ {c}) \cup {[id |-> id, loop |-> c.loop]}
        /\ frameIdRef' = id
        /\ UNCHANGED loop

\* the [config] effect re-runs: its cleanup cancels frameIdRef.current, its
\* body builds the next scene and calls animate(), whose first statement
\* queues the new closure
RebuiltQueue ==
  LET kept == cancelAnimationFrame(scheduledFrames, frameIdRef)
      id == FreshId({d.id : d \in kept} \cup {frameIdRef})
  IN  [scheduledFrames |-> kept \cup {[id |-> id, loop |-> loop + 1]},
       frameIdRef |-> id]

SceneRebuilt ==
  /\ loop' = loop + 1
  /\ scheduledFrames' = RebuiltQueue.scheduledFrames
  /\ frameIdRef' = RebuiltQueue.frameIdRef

\* mutant: the particle branch does not hide the surface mesh
Tick_surfaceLeftVisible(cfg, a, rest, live) ==
  /\ timeRef' = timeRef + 5000
  /\ mouseRef' = Lerp(mouseRef, targetMouseRef)
  /\ UNCHANGED targetMouseRef
  /\ UNCHANGED stepVars
  /\ frameReads' = ReadsOf(cfg)
  /\ lastAudio' = a
  /\ smoothedBassRef' = SmoothBass(smoothedBassRef, a.bass)
  /\ normalizedBass' = NormalizeBass(smoothedBassRef')
  /\ moodRef' = MoodStep(moodRef, a)
  /\ mood' = ExposeMood(moodRef')
  /\ hueShiftRef' = HueStep(hueShiftRef, mood')
  /\ cameraAngleRef' = CamStep(cameraAngleRef, mood')
  /\ lastBranch' = GenerationBranch(cfg)
  /\ particlesVisible' = (GenerationBranch(cfg) # "SURFACE")
  /\ surfaceVisible' = (surfaceVisible \/ GenerationBranch(cfg) = "SURFACE")
  /\ livePositions' =
       IF GenerationBranch(cfg) = "SURFACE"
       THEN [i \in DOMAIN rest |->
               DeformVertex(i, rest[i], timeRef', cfg, a, mood', mouseRef')]
       ELSE live

\* one run of animate with the closure's config cfg and the audio a, over
\* the surface mesh whose rest array is rest and whose position attribute
\* is live
Tick(cfg, a, rest, live) ==
  /\ timeRef' = timeRef + 5000
  /\ mouseRef' = Lerp(mouseRef, targetMouseRef)
  /\ UNCHANGED targetMouseRef
  /\ UNCHANGED stepVars
  /\ frameReads' = ReadsOf(cfg)
  /\ lastAudio' = a
  /\ smoothedBassRef' = SmoothBass(smoothedBassRef, a.bass)
  /\ normalizedBass' = NormalizeBass(smoothedBassRef')
  /\ moodRef' = MoodStep(moodRef, a)
  /\ mood' = ExposeMood(moodRef')
  /\ hueShiftRef' = HueStep(hueShiftRef, mood')
  /\ cameraAngleRef' = CamStep(cameraAngleRef, mood')
  /\ lastBranch' = GenerationBranch(cfg)
  /\ particlesVisible' = (GenerationBranch(cfg) # "SURFACE")
  /\ surfaceVisible' = (GenerationBranch(cfg) = "SURFACE")
  /\ livePositions' =
       IF GenerationBranch(cfg) = "SURFACE"
       THEN [i \in DOMAIN rest |->
               DeformVertex(i, rest[i], timeRef', cfg, a, mood', mouseRef')]
       ELSE live

\* mutant: the vertex loop writes the scaled vertices into the rest array
animate_restOverwritten(a) ==
  /\ frames + changes < MaxEvents
  /\ FrameCallbackRuns
  /\ Tick(sceneConfig, a, originalPositions, livePositions)
  /\ frames' = frames + 1
  /\ originalPositions' = livePositions'
  /\ UNCHANGED <<sceneConfig, geomDep, meshGeometry>>
  /\ UNCHANGED appVars
  /\ UNCHANGED <<reducerVars, audioVars, mounted>>

\* a frame callback of the loud run-up: animate over full-scale audio,
\* before the explored frames
loudFrame ==
  /\ frames = 0
  /\ timeRef < 5000 * (1 + LoudTicks)
  /\ FrameCallbackRuns
  /\ Tick(sceneConfig, FullScale, originalPositions, livePositions)
  /\ UNCHANGED <<frames, sceneConfig, geomDep, meshGeometry, originalPositions>>
  /\ UNCHANGED appVars
  /\ UNCHANGED <<reducerVars, audioVars, mounted>>

\* a frame callback of the running loop
animate(a) ==
  /\ frames + changes < MaxEvents
  /\ FrameCallbackRuns
  /\ Tick(sceneConfig, a, originalPositions, livePositions)
  /\ frames' = frames + 1
  /\ UNCHANGED <<sceneConfig, geomDep, meshGeometry, originalPositions>>
  /\ UNCHANGED appVars
  /\ UNCHANGED <<reducerVars, audioVars, mounted>>

\* the smoothed signals: smoothedBassRef with normalizedBass, moodRef with
\* mood, hueShiftRef, cameraAngleRef
Signals == {"impact", "mood", "hueShift", "cameraAngle"}

\* the body of animate as the sequence of its blocks, in source order; the
\* hue update is two statements, the += and the conditional -= 1
FrameBlocks ==
  <<"time", "pointer", "audio", "impact", "mood", "hueShift", "hueWrap",
    "colors", "background", "cameraAngle", "camera", "bloom", "generator",
    "render">>

\* the smoothed signals a block assigns when the hue stands at h: the wrap
\* assigns hueShiftRef only when its test h > 1 holds
Writes(b, h) ==
  IF b \in Signals THEN {b}
  ELSE IF b = "hueWrap" /\ h > One THEN {"hueShift"}
  ELSE {}

\* the smoothed signals a block reads, its own += target apart
Reads(b) ==
  IF b = "hueShift" THEN {"mood"}
  ELSE IF b = "colors" THEN {"hueShift", "mood"}
  ELSE IF b = "background" THEN {"impact", "mood"}
  ELSE IF b = "cameraAngle" THEN {"mood"}
  ELSE IF b = "camera" THEN {"cameraAngle", "impact", "mood"}
  ELSE IF b = "bloom" THEN {"impact", "mood"}
  ELSE IF b = "generator" THEN {"impact", "mood"}
  ELSE {}

\* requestAnimationFrame invokes the frame callback
beginFrame ==
  /\ pc = 0
  /\ frames + changes < MaxEvents
  /\ FrameCallbackRuns
  /\ pc' = 1
  /\ written' = [sig \in Signals |-> 0]
  /\ readEarly' = {}
  /\ frames' = frames + 1
  /\ UNCHANGED <<sceneConfig, geomDep, meshGeometry, particlesVisible,
                 surfaceVisible, lastBranch, lastAudio, timeRef,
                 smoothedBassRef, moodRef, hueShiftRef, cameraAngleRef,
                 normalizedBass, mood, mouseRef, targetMouseRef,
                 originalPositions, livePositions, frameReads>>
  /\ UNCHANGED appVars
  /\ UNCHANGED <<reducerVars, audioVars, mounted>>

\* the running frame callback executes its next block; a is what
\* audioDataRef.current holds when the audio block reads it
runBlock(a) ==
  /\ pc \in DOMAIN FrameBlocks
  /\ LET b == FrameBlocks[pc]
     IN  /\ timeRef' = IF b = "time" THEN timeRef + 5000 ELSE timeRef
         /\ mouseRef' = IF b = "pointer" THEN Lerp(mouseRef, targetMouseRef) ELSE mouseRef
         /\ lastAudio' = IF b = "audio" THEN a ELSE lastAudio
         /\ smoothedBassRef' = IF b = "impact"
                               THEN SmoothBass(smoothedBassRef, lastAudio.bass)
                               ELSE smoothedBassRef
         /\ normalizedBass' = IF b = "impact" THEN NormalizeBass(smoothedBassRef')
                              ELSE normalizedBass
         /\ moodRef' = IF b = "mood" THEN MoodStep(moodRef, lastAudio) ELSE moodRef
         /\ mood' = IF b = "mood" THEN ExposeMood(moodRef') ELSE mood
         /\ hueShiftRef' = IF b = "hueShift" THEN HueRaise(hueShiftRef, mood)
                           ELSE IF b = "hueWrap" THEN HueWrap(hueShiftRef)
                           ELSE hueShiftRef
         /\ cameraAngleRef' = IF b = "cameraAngle" THEN CamStep(cameraAngleRef, mood)
                              ELSE cameraAngleRef
         /\ frameReads' = IF b = "generator" THEN ReadsOf(sceneConfig) ELSE frameReads
         /\ lastBranch' = IF b = "generator" THEN GenerationBranch(sceneConfig)
                          ELSE lastBranch
         /\ particlesVisible' = IF b = "generator"
                                THEN GenerationBranch(sceneConfig) # "SURFACE"
                                ELSE particlesVisible
         /\ surfaceVisible' = IF b = "generator"
                              THEN GenerationBranch(sceneConfig) = "SURFACE"
                              ELSE surfaceVisible
         /\ livePositions' =
              IF b = "generator" /\ GenerationBranch(sceneConfig) = "SURFACE"
              THEN [i \in DOMAIN originalPositions |->
                      DeformVertex(i, originalPositions[i], timeRef, sceneConfig,
                                   lastAudio, mood, mouseRef)]
              ELSE livePositions
         /\ written' = [sig \in Signals |->
                          written[sig]
                            + IF sig \in Writes(b, hueShiftRef) THEN 1 ELSE 0]
         /\ readEarly' = readEarly \cup {sig \in Reads(b) : written[sig] = 0}
  /\ pc' = IF pc = Len(FrameBlocks) THEN 0 ELSE pc + 1
  /\ UNCHANGED <<sceneConfig, geomDep, meshGeometry, targetMouseRef,
                 originalPositions, frames>>
  /\ UNCHANGED loopVars
  /\ UNCHANGED appVars
  /\ UNCHANGED <<reducerVars, audioVars, mounted>>

\* the mousemove listener: the pointer normalized to -1..1 on both axes
PointerTargets ==
  {[x |-> 0, y |-> 0], [x |-> One, y |-> 0], [x |-> 0, y |-> One],
   [x |-> One, y |-> One]}

handleMouseMove(p) ==
  /\ mounted
  /\ targetMouseRef' = p
  /\ targetMouseRef # p
  /\ UNCHANGED <<sceneConfig, geomDep, meshGeometry, particlesVisible,
                 surfaceVisible, lastBranch, lastAudio, timeRef,
                 smoothedBassRef, moodRef, hueShiftRef, cameraAngleRef,
                 normalizedBass, mood, mouseRef, originalPositions,
                 livePositions, frameReads, pc, written, readEarly, frames>>
  /\ UNCHANGED loopVars
  /\ UNCHANGED appVars
  /\ UNCHANGED <<reducerVars, audioVars, mounted>>

\* the particle geometry after the effects of one commit: the [config] effect
\* builds a new InstancedMesh over a BoxGeometry; the [config.geometryType]
\* effect, when its dependency changed, replaces that geometry
GeometryAfterEffects(cfg, dep) ==
  IF Field(cfg, "geometryType") # dep
  THEN GeometryFor(Field(cfg, "geometryType"))
  ELSE "BOX"

\* React runs ThreeScene's effects for a replaced config: cleanup of the
\* [config] effect (cancelAnimationFrame), its body (new scene, new meshes,
\* animate() called once), then the [config.geometryType] effect
runEffects(a) ==
  /\ mounted
  /\ effectPending
  /\ SceneRebuilt
  /\ effectPending' = FALSE
  /\ sceneConfig' = config
  /\ originalPositions' = RestVertices
  /\ Tick(config, a, RestVertices, RestVertices)
  /\ UNCHANGED frames
  /\ meshGeometry' = GeometryAfterEffects(config, geomDep)
  /\ geomDep' = Field(config, "geometryType")
  /\ UNCHANGED <<config, configIsDefault, prompt, isGenerating, genPending,
                 changes, lastOutcome, lastResult>>
  /\ UNCHANGED <<reducerVars, audioVars, mounted>>

\* App unmounts.  React first runs the passive effects still pending from
\* a preset change (the scene is rebuilt and animate() runs once, reading
\* the audio a); then ThreeScene's cleanup cancels frameIdRef.current and
\* App's cleanup cancels requestRef.current when it is not 0
unmount(a) ==
  /\ mounted
  /\ mounted' = FALSE
  /\ IF effectPending
     THEN /\ effectPending' = FALSE
          /\ loop' = loop + 1
          /\ frameIdRef' = RebuiltQueue.frameIdRef
          /\ scheduledFrames' = cancelAnimationFrame(RebuiltQueue.scheduledFrames,
                                                     RebuiltQueue.frameIdRef)
          /\ sceneConfig' = config
          /\ originalPositions' = RestVertices
          /\ Tick(config, a, RestVertices, RestVertices)
          /\ meshGeometry' = GeometryAfterEffects(config, geomDep)
          /\ geomDep' = Field(config, "geometryType")
     ELSE /\ scheduledFrames' = cancelAnimationFrame(scheduledFrames, frameIdRef)
          /\ UNCHANGED <<effectPending, sceneConfig, geomDep, meshGeometry,
                         particlesVisible, surfaceVisible, lastBranch, lastAudio,
                         timeRef, smoothedBassRef, moodRef, hueShiftRef,
                         cameraAngleRef, normalizedBass, mood, mouseRef,
                         targetMouseRef, originalPositions, livePositions,
                         frameReads, loop, frameIdRef>>
          /\ UNCHANGED stepVars
  /\ analysisLoops' = IF requestRef # 0
                      THEN cancelAnimationFrame(analysisLoops, requestRef)
                      ELSE analysisLoops
  /\ UNCHANGED frames
  /\ UNCHANGED <<config, configIsDefault, prompt, isGenerating, genPending,
                 changes, lastOutcome, lastResult>>
  /\ UNCHANGED reducerVars
  /\ UNCHANGED <<sourceType, isPlaying, audioName, analyserRef, sourceNodeRef,
                 connected, audioElemRef, micPending, playPending, requestRef,
                 elemPlaying, sourceChosen, ctxState, resumeRequested,
                 resumeWaiters, elemLoaded, elemAttached>>

----------------------------------------------------------------------------
(* App: the spectrum reducer (analyse, inside startAnalysisLoop).  A        *)
(* spectrum is a sequence of byte levels; dataArray[i] of the code is      *)
(* d[i + 1] here.  A band value is the quotient of two integers, kept as   *)
(* the pair, or NaN or Infinity when the divisor is 0.                     *)

\* the JavaScript quotient sum / count of two non-negative integers
Quotient(sum, count) ==
  IF count = 0
  THEN IF sum = 0 THEN [kind |-> "NaN", num |-> 0, den |-> 0]
       ELSE [kind |-> "Infinity", num |-> 0, den |-> 0]
  ELSE [kind |-> "number", num |-> sum, den |-> count]

\* x === v for a band value x and an integer v
EqualsLevel(x, v) == x.kind = "number" /\ x.num = v * x.den

\* Math.floor(bufferLength * 0.1)
BassLimit(bufferLength) == bufferLength \div 10

\* Math.floor(bufferLength * 0.5)
MidLimit(bufferLength) == bufferLength \div 2

\* mutant: every bin below midLimit is added to bassSum
BandOf_midIntoBass(i, bufferLength) ==
  IF i < MidLimit(bufferLength) THEN "bass" ELSE "treble"

\* mutant: the bin at midLimit is added to no band sum
BandOf_gapAtMidLimit(i, bufferLength) ==
  IF i < BassLimit(bufferLength) THEN "bass"
  ELSE IF i < MidLimit(bufferLength) THEN "mid"
  ELSE IF i > MidLimit(bufferLength) THEN "treble"
  ELSE "none"

\* the if-chain inside the for loop: the sum that bin i is added to
BandOf(i, bufferLength) ==
  IF i < BassLimit(bufferLength) THEN "bass"
  ELSE IF i < MidLimit(bufferLength) THEN "mid"
  ELSE "treble"

\* what the for loop adds to one of its sums over the bins lo..hi-1 (the
\* range is halved to keep the evaluation shallow); sum takes every bin
RECURSIVE LoopSum(_, _, _, _)
LoopSum(d, lo, hi, which) ==
  IF hi <= lo THEN 0
  ELSE IF hi = lo + 1
       THEN IF which = "sum" \/ BandOf(lo, Len(d)) = which THEN d[lo + 1] ELSE 0
       ELSE LET half == (lo + hi) \div 2
            IN  LoopSum(d, lo, half, which) + LoopSum(d, half, hi, which)

Sums(d) ==
  [sum |-> LoopSum(d, 0, Len(d), "sum"),
   bassSum |-> LoopSum(d, 0, Len(d), "bass"),
   midSum |-> LoopSum(d, 0, Len(d), "mid"),
   trebleSum |-> LoopSum(d, 0, Len(d), "treble")]

\* the divisors of the three band averages: the bin count of each band
BandCounts(bufferLength) ==
  [bass |-> BassLimit(bufferLength),
   mid |-> MidLimit(bufferLength) - BassLimit(bufferLength),
   treble |-> bufferLength - MidLimit(bufferLength)]

\* the object analyse stores in audioDataRef.current
Reduce(d) ==
  LET bufferLength == Len(d)
      bassLimit == BassLimit(bufferLength)
      midLimit == MidLimit(bufferLength)
      s == Sums(d)
  IN  [frequencyData |-> d,
       overallAmplitude |-> Quotient(s.sum, bufferLength),
       bass |-> Quotient(s.bassSum, bassLimit),
       mid |-> Quotient(s.midSum, midLimit - bassLimit),
       treble |-> Quotient(s.trebleSum, bufferLength - midLimit)]

\* audioDataRef's initial value: 128 zero bins, every energy 0
InitialAudioData ==
  [frequencyData |-> [i \in 1..128 |-> 0],
   overallAmplitude |-> Quotient(0, 1), bass |-> Quotient(0, 1),
   mid |-> Quotient(0, 1), treble |-> Quotient(0, 1)]

\* analyserRef.current.frequencyBinCount: half of fftSize = 512
FrequencyBinCount == 256

Uniform(n, v) == [i \in 1..n |-> v]

Ramp(n) == [i \in 1..n |-> (i * 37) % 256]

Impulse(n, k) == [i \in 1..n |-> IF i = k THEN 255 ELSE 0]

\* the bins given a full-scale impulse: the ends of the spectrum and both
\* sides of the two band limits (bins 26 and 129, counted from 1)
ImpulseBins == (1..12) \cup (20..30) \cup (120..135) \cup (245..256)

\* the spectra getByteFrequencyData is taken to deliver: frequencyBinCount
\* byte levels, here uniform, ramped, or one bin at full scale
Spectra ==
  {Uniform(FrequencyBinCount, v) : v \in {0, 1, 128, 255}}
  \cup {Ramp(FrequencyBinCount)}
  \cup {Impulse(FrequencyBinCount, k) : k \in ImpulseBins}

\* no node created
NoNode == [kind |-> "none", id |-> 0]

\* the audio engine before any source was chosen
NoAudioSource ==
  /\ sourceType = "null"
  /\ isPlaying = FALSE
  /\ audioName = "null"
  /\ analyserRef = FALSE
  /\ sourceNodeRef = NoNode
  /\ connected = {}
  /\ audioElemRef = 0
  /\ micPending = 0
  /\ playPending = {}
  /\ analysisLoops = {}
  /\ requestRef = 0
  /\ elemPlaying = FALSE
  /\ sourceChosen = FALSE
  /\ ctxState = "none"
  /\ resumeRequested = FALSE
  /\ resumeWaiters = <<>>
  /\ elemLoaded = FALSE
  /\ elemAttached = FALSE

\* the audio engine after Use Mic was clicked and the permission granted
MicListening ==
  /\ sourceType = "mic"
  /\ isPlaying = TRUE
  /\ audioName = "Microphone Input"
  /\ analyserRef = TRUE
  /\ sourceNodeRef = [kind |-> "mic", id |-> 1]
  /\ connected = {sourceNodeRef}
  /\ audioElemRef = 0
  /\ micPending = 0
  /\ playPending = {}
  /\ analysisLoops = {[id |-> 1]}
  /\ requestRef = 1
  /\ elemPlaying = FALSE
  /\ sourceChosen = TRUE
  /\ ctxState = "running"
  /\ resumeRequested = FALSE
  /\ resumeWaiters = <<>>
  /\ elemLoaded = FALSE
  /\ elemAttached = FALSE

\* source selections are explored while fewer than MaxSources analysis
\* loops and pending requests exist
MaxSources == 2

\* the context-side variables an action that never touches them leaves alone
ctxVars == <<ctxState, resumeRequested, resumeWaiters, elemLoaded, elemAttached>>

\* a setState call: dropped once the component is unmounted
SetState(old, new) == IF mounted THEN new ELSE old

\* what cleanupAudio leaves: the element of audioElemRef paused and emptied
\* (its pending play() is rejected), the node of sourceNodeRef disconnected
\* and forgotten, isPlaying false; the analysis loop is not touched
cleanupAudio ==
  [playPending |-> IF audioElemRef # 0 THEN playPending \ {audioElemRef}
                   ELSE playPending,
   elemPlaying |-> FALSE,
   elemLoaded |-> FALSE,
   connected |-> IF sourceNodeRef # NoNode THEN connected \ {sourceNodeRef}
                 ELSE connected,
   sourceNodeRef |-> NoNode,
   isPlaying |-> SetState(isPlaying, FALSE)]

\* startAnalysisLoop: one more analyse callback requested, its handle kept
startAnalysisLoop ==
  LET id == FreshId({l.id : l \in analysisLoops} \cup {requestRef}) IN
    /\ analysisLoops' = analysisLoops \cup {[id |-> id]}
    /\ requestRef' = id

\* a node created by the audio context
NewNode(kind, nodes) == [kind |-> kind, id |-> FreshId({n.id : n \in nodes})]

\* initAudioContext: the context is created running on its first call
initAudioContext == IF ctxState = "none" THEN "running" ELSE ctxState

\* the pending requests and running loops that bound the exploration
Outstanding ==
  Cardinality(analysisLoops) + micPending + Cardinality(playPending)
    + Len(resumeWaiters)

\* setupFileSource from createMediaElementSource to the await of play(), on
\* the audio state st and the element of audioElemRef: a second source for
\* the same element throws (the catch logs it); play() on an element whose
\* src was emptied is rejected
FileSourceSetUp(st) ==
  IF st.elemAttached THEN st
  ELSE LET source == NewNode("file", st.connected \cup {st.sourceNodeRef})
       IN  [st EXCEPT !.connected = st.connected \cup {source},
                      !.sourceNodeRef = source,
                      !.sourceType = SetState(st.sourceType, "file"),
                      !.elemAttached = TRUE,
                      !.playPending = IF st.elemLoaded
                                      THEN st.playPending \cup {audioElemRef}
                                      ELSE st.playPending]

\* handleMicInput past await ctx.resume(): getUserMedia is called
MicRequested(st) == [st EXCEPT !.micPending = st.micPending + 1]

\* the handlers waiting in await ctx.resume() continue in the order of
\* their calls
RECURSIVE Resumed(_, _)
Resumed(st, waiters) ==
  IF waiters = <<>> THEN st
  ELSE Resumed(IF Head(waiters) = "file" THEN FileSourceSetUp(st)
               ELSE MicRequested(st),
               Tail(waiters))

\* Use Mic clicked: cleanupAudio and initAudioContext, then the await of
\* ctx.resume() when the context is suspended, of getUserMedia otherwise
handleMicInput ==
  /\ mounted
  /\ sourceType = "null"
  /\ Outstanding < MaxSources
  /\ playPending' = cleanupAudio.playPending
  /\ elemPlaying' = cleanupAudio.elemPlaying
  /\ elemLoaded' = cleanupAudio.elemLoaded
  /\ connected' = cleanupAudio.connected
  /\ sourceNodeRef' = cleanupAudio.sourceNodeRef
  /\ isPlaying' = cleanupAudio.isPlaying
  /\ analyserRef' = TRUE
  /\ ctxState' = initAudioContext
  /\ IF initAudioContext = "suspended"
     THEN /\ resumeWaiters' = Append(resumeWaiters, "mic")
          /\ resumeRequested' = TRUE
          /\ UNCHANGED micPending
     ELSE /\ micPending' = micPending + 1
          /\ UNCHANGED <<resumeWaiters, resumeRequested>>
  /\ sourceChosen' = TRUE
  /\ UNCHANGED <<sourceType, audioName, audioElemRef, analysisLoops, requestRef,
                 elemAttached>>
  /\ UNCHANGED <<appVars, sceneVars, dataArray, audioData, mounted>>

\* getUserMedia resolved: the rest of handleMicInput
micGranted ==
  /\ micPending > 0
  /\ micPending' = micPending - 1
  /\ LET source == NewNode("mic", connected \cup {sourceNodeRef}) IN
       /\ connected' = connected \cup {source}
       /\ sourceNodeRef' = source
  /\ sourceType' = SetState(sourceType, "mic")
  /\ isPlaying' = SetState(isPlaying, TRUE)
  /\ audioName' = SetState(audioName, "Microphone Input")
  /\ startAnalysisLoop
  /\ UNCHANGED <<analyserRef, audioElemRef, playPending, elemPlaying, sourceChosen>>
  /\ UNCHANGED ctxVars
  /\ UNCHANGED <<appVars, sceneVars, dataArray, audioData, mounted>>

\* getUserMedia rejected: the catch of handleMicInput
micDenied ==
  /\ micPending > 0
  /\ micPending' = micPending - 1
  /\ UNCHANGED <<sourceType, isPlaying, audioName, analyserRef, sourceNodeRef,
                 connected, audioElemRef, playPending, analysisLoops,
                 requestRef, elemPlaying, sourceChosen>>
  /\ UNCHANGED ctxVars
  /\ UNCHANGED <<appVars, sceneVars, dataArray, audioData, mounted>>

\* a file chosen: handleFileUpload, and setupFileSource up to its first
\* await: of ctx.resume() when the context is suspended, of play() otherwise
handleFileUpload ==
  /\ mounted
  /\ sourceType = "null"
  /\ Outstanding < MaxSources
  /\ LET newAudio == FreshId(playPending \cup {audioElemRef})
         cleaned == [connected |-> cleanupAudio.connected,
                     sourceNodeRef |-> cleanupAudio.sourceNodeRef,
                     sourceType |-> sourceType,
                     micPending |-> micPending,
                     playPending |-> cleanupAudio.playPending,
                     elemLoaded |-> TRUE,
                     elemAttached |-> FALSE]
         st == IF initAudioContext = "suspended" THEN cleaned
               ELSE [FileSourceSetUp(cleaned) EXCEPT
                       !.playPending = cleanupAudio.playPending \cup {newAudio}]
     IN /\ audioElemRef' = newAudio
        /\ connected' = st.connected
        /\ sourceNodeRef' = st.sourceNodeRef
        /\ sourceType' = st.sourceType
        /\ playPending' = st.playPending
        /\ elemLoaded' = st.elemLoaded
        /\ elemAttached' = st.elemAttached
  /\ elemPlaying' = cleanupAudio.elemPlaying
  /\ isPlaying' = cleanupAudio.isPlaying
  /\ audioName' = "file"
  /\ analyserRef' = TRUE
  /\ ctxState' = initAudioContext
  /\ IF initAudioContext = "suspended"
     THEN /\ resumeWaiters' = Append(resumeWaiters, "file")
          /\ resumeRequested' = TRUE
     ELSE UNCHANGED <<resumeWaiters, resumeRequested>>
  /\ sourceChosen' = TRUE
  /\ UNCHANGED <<micPending, analysisLoops, requestRef>>
  /\ UNCHANGED <<appVars, sceneVars, dataArray, audioData, mounted>>

\* the browser suspends the running audio context
contextSuspends ==
  /\ ctxState = "running"
  /\ ctxState' = "suspended"
  /\ UNCHANGED <<sourceType, isPlaying, audioName, analyserRef, sourceNodeRef,
                 connected, audioElemRef, micPending, playPending,
                 analysisLoops, requestRef, elemPlaying, sourceChosen,
                 resumeRequested, resumeWaiters, elemLoaded, elemAttached>>
  /\ UNCHANGED <<appVars, sceneVars, dataArray, audioData, mounted>>

\* ctx.resume() settles: the context runs again and every handler waiting
\* in await ctx.resume() continues to its next await
contextResumes ==
  /\ ctxState = "suspended"
  /\ resumeRequested
  /\ ctxState' = "running"
  /\ resumeRequested' = FALSE
  /\ resumeWaiters' = <<>>
  /\ LET st == Resumed([connected |-> connected,
                        sourceNodeRef |-> sourceNodeRef,
                        sourceType |-> sourceType,
                        micPending |-> micPending,
                        playPending |-> playPending,
                        elemLoaded |-> elemLoaded,
                        elemAttached |-> elemAttached], resumeWaiters)
     IN /\ connected' = st.connected
        /\ sourceNodeRef' = st.sourceNodeRef
        /\ sourceType' = st.sourceType
        /\ micPending' = st.micPending
        /\ playPending' = st.playPending
        /\ elemAttached' = st.elemAttached
  /\ UNCHANGED <<isPlaying, audioName, analyserRef, audioElemRef, analysisLoops,
                 requestRef, elemPlaying, sourceChosen, elemLoaded>>
  /\ UNCHANGED <<appVars, sceneVars, dataArray, audioData, mounted>>

\* play() resolved: the rest of the try block of setupFileSource
playResolves ==
  /\ \E e \in playPending :
       /\ playPending' = playPending \ {e}
       /\ elemPlaying' = (elemPlaying \/ e = audioElemRef)
  /\ isPlaying' = SetState(isPlaying, TRUE)
  /\ startAnalysisLoop
  /\ UNCHANGED <<sourceType, audioName, analyserRef, sourceNodeRef, connected,
                 audioElemRef, micPending, sourceChosen>>
  /\ UNCHANGED ctxVars
  /\ UNCHANGED <<appVars, sceneVars, dataArray, audioData, mounted>>

\* play() rejected by the browser: the catch of setupFileSource
playRejects ==
  /\ \E e \in playPending : playPending' = playPending \ {e}
  /\ UNCHANGED <<sourceType, isPlaying, audioName, analyserRef, sourceNodeRef,
                 connected, audioElemRef, micPending, analysisLoops,
                 requestRef, elemPlaying, sourceChosen>>
  /\ UNCHANGED ctxVars
  /\ UNCHANGED <<appVars, sceneVars, dataArray, audioData, mounted>>

\* the play/pause button, shown while a source is set
togglePlayPause ==
  /\ mounted
  /\ sourceType # "null"
  /\ IF sourceType = "file" /\ audioElemRef # 0
     THEN /\ isPlaying' = ~isPlaying
          /\ elemPlaying' = (~isPlaying /\ elemLoaded)
          /\ playPending' = IF isPlaying THEN playPending \ {audioElemRef}
                            ELSE playPending
          /\ UNCHANGED resumeRequested
     ELSE /\ isPlaying' = IF sourceType = "mic" THEN ~isPlaying ELSE isPlaying
          /\ resumeRequested' =
               (resumeRequested
                  \/ (sourceType = "mic" /\ ~isPlaying /\ ctxState = "suspended"))
          /\ UNCHANGED <<elemPlaying, playPending>>
  /\ UNCHANGED <<sourceType, audioName, analyserRef, sourceNodeRef, connected,
                 audioElemRef, micPending, analysisLoops, requestRef,
                 sourceChosen, ctxState, resumeWaiters, elemLoaded,
                 elemAttached>>
  /\ UNCHANGED <<appVars, sceneVars, dataArray, audioData, mounted>>

\* the file played to its end: the onended handler
onEnded ==
  /\ elemPlaying
  /\ playPending = {}
  /\ elemPlaying' = FALSE
  /\ isPlaying' = SetState(isPlaying, FALSE)
  /\ UNCHANGED <<sourceType, audioName, analyserRef, sourceNodeRef, connected,
                 audioElemRef, micPending, playPending, analysisLoops,
                 requestRef, sourceChosen>>
  /\ UNCHANGED ctxVars
  /\ UNCHANGED <<appVars, sceneVars, dataArray, audioData, mounted>>

\* the Change Source button, shown while a source is set
changeSource ==
  /\ mounted
  /\ sourceType # "null"
  /\ playPending' = cleanupAudio.playPending
  /\ elemPlaying' = cleanupAudio.elemPlaying
  /\ elemLoaded' = cleanupAudio.elemLoaded
  /\ connected' = cleanupAudio.connected
  /\ sourceNodeRef' = cleanupAudio.sourceNodeRef
  /\ isPlaying' = cleanupAudio.isPlaying
  /\ sourceType' = "null"
  /\ sourceChosen' = FALSE
  /\ UNCHANGED <<audioName, analyserRef, audioElemRef, micPending,
                 analysisLoops, requestRef, ctxState, resumeRequested,
                 resumeWaiters, elemAttached>>
  /\ UNCHANGED <<appVars, sceneVars, dataArray, audioData, mounted>>

\* one run of a scheduled analyse callback over the spectrum d: the
\* reduction, then the next callback requested
analyse(d) ==
  /\ \E c \in analysisLoops :
       LET id == FreshId({l.id : l \in analysisLoops \ {c}} \cup {requestRef}) IN
         IF analyserRef
         THEN /\ dataArray' = d
              /\ audioData' = Reduce(d)
              /\ analysisLoops' = (analysisLoops \ {c}) \cup {[id |-> id]}
              /\ requestRef' = id
         ELSE /\ analysisLoops' = analysisLoops \ {c}
              /\ UNCHANGED <<dataArray, audioData, requestRef>>
  /\ UNCHANGED appVars
  /\ UNCHANGED sceneVars
  /\ UNCHANGED <<sourceType, isPlaying, audioName, analyserRef, sourceNodeRef,
                 connected, audioElemRef, micPending, playPending,
                 elemPlaying, sourceChosen, mounted>>
  /\ UNCHANGED ctxVars

----------------------------------------------------------------------------
(* The state after mount and k silent frames *)

MountedAfter(k) ==
  /\ config = INITIAL_CONFIG
  /\ configIsDefault = FALSE
  /\ prompt = ""
  /\ isGenerating = FALSE
  /\ genPending = FALSE
  /\ effectPending = FALSE
  /\ sceneConfig = INITIAL_CONFIG
  /\ geomDep = "SPHERE"
  /\ meshGeometry = "SPHERE"
  /\ particlesVisible = TRUE
  /\ surfaceVisible = FALSE
  /\ lastBranch = "FERROFLUID"
  /\ lastAudio = Silence
  /\ timeRef = 5000 * k
  /\ smoothedBassRef = 0
  /\ moodRef = 0
  /\ hueShiftRef = 200 * k
  /\ cameraAngleRef = 1000 * k
  /\ normalizedBass = 0
  /\ mood = 0
  /\ mouseRef = [x |-> 0, y |-> 0]
  /\ targetMouseRef = [x |-> 0, y |-> 0]
  /\ originalPositions = RestVertices
  /\ livePositions = RestVertices
  /\ frameReads = ReadsOf(INITIAL_CONFIG)
  /\ pc = 0
  /\ written = [sig \in Signals |-> 1]
  /\ readEarly = {}
  /\ frames = 0
  /\ changes = 0
  /\ lastOutcome = NoOutcome
  /\ lastResult = NoResult
  /\ dataArray = InitialAudioData.frequencyData
  /\ audioData = InitialAudioData
  /\ mounted = TRUE
  /\ loop = 0
  /\ frameIdRef = 2 - (k % 2)
  /\ scheduledFrames = {[id |-> frameIdRef, loop |-> 0]}

InitAfter(k) == MountedAfter(k) /\ NoAudioSource

Init == \E k \in {1, WarmTicks} : InitAfter(k)

Next ==
  \/ \E a \in AudioInputs : animate(a)
  \/ \E a \in AudioInputs : runEffects(a)
  \/ \E d \in {"left", "right"} : cycleMode(d)
  \/ \E d \in {"left", "right"} : cycleGeometry(d)
  \/ \E p \in Prompts : setPrompt(p)
  \/ handleGenerate
  \/ \E o \in GeneratorOutcomes : generateSettles(o)

Spec == Init /\ [][Next]_vars

\* the frame loop alone, over band levels of any magnitude: a session in
\* which the microphone feeds up to LoudTicks full-scale frames, and from
\* any point of it frames over every enumerated level
InitMagnitude == MountedAfter(1) /\ MicListening

NextMagnitude ==
  \/ loudFrame
  \/ \E a \in AudioInputs \cup MagnitudeInputs : animate(a)

SpecMagnitude == InitMagnitude /\ [][NextMagnitude]_vars

\* the reducer as a function of its sample, over samples of every length
\* up to MaxLength, the empty one included
Samples == {Uniform(n, v) : n \in 0..MaxLength, v \in {0, 255}}

InitBands == MountedAfter(1) /\ MicListening

NextBands == \E d \in Samples : analyse(d)

SpecBands == InitBands /\ [][NextBands]_vars

\* the reducer alone, over the enumerated spectra
InitReducer == MountedAfter(1) /\ MicListening

NextReducer == \E d \in Spectra : analyse(d)

SpecReducer == InitReducer /\ [][NextReducer]_vars

\* the audio source engine: the source buttons, the pending permission and
\* playback requests, the analysis loop and the unmount
AudioSpectra == {Uniform(FrequencyBinCount, 0), Uniform(FrequencyBinCount, 255)}

NextAudio ==
  \/ handleMicInput
  \/ micGranted
  \/ micDenied
  \/ handleFileUpload
  \/ playResolves
  \/ playRejects
  \/ togglePlayPause
  \/ onEnded
  \/ changeSource
  \/ contextSuspends
  \/ contextResumes
  \/ \E d \in AudioSpectra : analyse(d)
  \/ \E a \in AudioInputs : unmount(a)

SpecAudio == InitAfter(1) /\ [][NextAudio]_vars

\* the frame loop alone, with the pointer: the scene after the preset was
\* cycled to one of the six modes (or replaced by DEFAULT_CONFIG), the
\* pointer was moved to p, and the silent runs of animate counted by
\* RunsBehind happened
FramePresets ==
  {Spread(INITIAL_CONFIG, "mode", m) : m \in Range(VisualizerMode)}
  \cup {DEFAULT_CONFIG}

\* spectra of byte levels with their band averages
FrameAudio ==
  {Silence,
   [frequencyData |-> [i \in 1..256 |-> 255], bass |-> 255, mid |-> 255, treble |-> 255],
   [frequencyData |-> [i \in 1..256 |-> IF i <= 25 THEN 240 ELSE 0],
    bass |-> 240, mid |-> 0, treble |-> 0]}

\* the fewest preset replacements that lead from INITIAL_CONFIG to cfg: the
\* mode clicks in the shorter direction, or one generation for DEFAULT_CONFIG
ChangesTo(cfg) ==
  IF cfg = DEFAULT_CONFIG THEN 1
  ELSE LET from == IndexOf(VisualizerMode, INITIAL_CONFIG.mode)
           to == IndexOf(VisualizerMode, cfg.mode)
           right == (to - from + Len(VisualizerMode)) % Len(VisualizerMode)
       IN  Min(right, Len(VisualizerMode) - right)

\* the runs of animate behind an initial state: WarmTicks of them, or the
\* fewest the state needs: the one of the mount, one for each preset
\* replacement (the [config] effect calls animate) and, with the pointer
\* moved, one frame that eased toward it
RunsBehind(cfg, p, warm) ==
  IF warm THEN WarmTicks
  ELSE 1 + ChangesTo(cfg) + (IF p = [x |-> 0, y |-> 0] THEN 0 ELSE 1)

InitFrame ==
  \E cfg \in FramePresets, p \in PointerTargets, warm \in BOOLEAN :
   LET k == RunsBehind(cfg, p, warm) IN
    /\ config = cfg
    /\ configIsDefault = (cfg = DEFAULT_CONFIG)
    /\ prompt = ""
    /\ isGenerating = FALSE
    /\ genPending = FALSE
    /\ effectPending = FALSE
    /\ sceneConfig = cfg
    /\ geomDep = Field(cfg, "geometryType")
    /\ meshGeometry = IF cfg = INITIAL_CONFIG THEN "SPHERE" ELSE "BOX"
    /\ particlesVisible = (GenerationBranch(cfg) # "SURFACE")
    /\ surfaceVisible = (GenerationBranch(cfg) = "SURFACE")
    /\ lastBranch = GenerationBranch(cfg)
    /\ lastAudio = Silence
    /\ timeRef = 5000 * k
    /\ smoothedBassRef = 0
    /\ moodRef = 0
    /\ hueShiftRef = 200 * k
    /\ cameraAngleRef = 1000 * k
    /\ normalizedBass = 0
    /\ mood = 0
    /\ targetMouseRef = p
    /\ mouseRef = IF warm THEN p ELSE Lerp([x |-> 0, y |-> 0], p)
    /\ originalPositions = RestVertices
    /\ livePositions =
         IF GenerationBranch(cfg) = "SURFACE"
         THEN [i \in DOMAIN RestVertices |->
                 DeformVertex(i, RestVertices[i], timeRef, cfg, Silence, 0, mouseRef)]
         ELSE RestVertices
    /\ frameReads = ReadsOf(cfg)
    /\ pc = 0
    /\ written = [sig \in Signals |-> 1]
    /\ readEarly = {}
    /\ frames = 0
    /\ changes = IF cfg = INITIAL_CONFIG THEN 0 ELSE 1
    /\ lastOutcome = NoOutcome
    /\ lastResult = NoResult
    /\ dataArray = InitialAudioData.frequencyData
    /\ audioData = InitialAudioData
    /\ mounted = TRUE
    /\ loop = ChangesTo(cfg)
    /\ frameIdRef = 2 - (k % 2)
    /\ scheduledFrames = {[id |-> frameIdRef, loop |-> loop]}
    /\ NoAudioSource

NextFrame ==
  \/ \E a \in FrameAudio : animate(a)
  \/ \E p \in PointerTargets : handleMouseMove(p)

SpecFrame == InitFrame /\ [][NextFrame]_vars

\* the frame callback block by block
NextSteps ==
  \/ beginFrame
  \/ \E a \in AudioInputs : runBlock(a)

SpecSteps == Init /\ [][NextSteps]_vars

\* the frame loop across preset changes (by the mode buttons and by the
\* generator) and the unmount
NextLoop ==
  \/ \E a \in AudioInputs : animate(a)
  \/ \E a \in AudioInputs : runEffects(a)
  \/ \E d \in {"left", "right"} : cycleMode(d)
  \/ \E p \in Prompts : setPrompt(p)
  \/ handleGenerate
  \/ \E o \in GeneratorOutcomes : generateSettles(o)
  \/ \E a \in AudioInputs : unmount(a)

SpecLoop == Init /\ [][NextLoop]_vars

\* the generator call alone: the prompt, handleGenerate, the settling of
\* the generator's promise and the effects of the stored preset.  A pending
\* promise settles
NextGenerate ==
  \/ \E p \in Prompts : setPrompt(p)
  \/ handleGenerate
  \/ \E o \in GeneratorOutcomes : generateSettles(o)
  \/ \E a \in AudioInputs : runEffects(a)

SpecGenerate ==
  /\ Init
  /\ [][NextGenerate]_vars
  /\ WF_vars(\E o \in GeneratorOutcomes : generateSettles(o))

\* the instances the properties look at
ProbeInstances == {0, 1, 7, 105, 1220, 1256, 2499}

\* the three Math.random() draws of one pass, in thousandths
RandomDraws == {[x |-> 0, y |-> 500, z |-> 999], [x |-> 999, y |-> 0, z |-> 500]}

\* what the latest frame tick wrote for instance i when its random draws
\* were rnd: the tick ran updateParticles with the closure's config, the
\* time, audio, mood and pointer it left in the refs
InstanceWith(i, rnd) ==
  updateParticles(i, PARTICLE_COUNT, timeRef, sceneConfig, lastAudio, mood,
                  mouseRef, rnd)

\* what the latest frame tick would have written for instance i, with the
\* random draws rnd, had the eased pointer been at mouse
InstanceUnder(i, mouse, rnd) ==
  updateParticles(i, PARTICLE_COUNT, timeRef, sceneConfig, lastAudio, mood,
                  mouse, rnd)

\* the distance of a written position from the origin, in thousandths
\* (squared in hundredths to stay inside the integer width)
DistanceFromOrigin(q) ==
  10 * Sqrt((q.x \div 10) * (q.x \div 10) + (q.y \div 10) * (q.y \div 10)
            + (q.z \div 10) * (q.z \div 10))

----------------------------------------------------------------------------
(* Properties *)

\* a step in which animate ran (every run of animate advances timeRef)
FrameStep == timeRef' # timeRef

\* C1: after every frame tick the exposed mood and the exposed impact
\* (normalized smoothed bass) lie in [0,1], whatever the magnitude of the
\* band levels fed to the frames
C1_MoodAndImpactInUnitInterval ==
  /\ mood >= 0 /\ mood <= One
  /\ normalizedBass >= 0 /\ normalizedBass <= One

\* after LoudTicks full-scale frames a frame has read band levels beyond
\* the byte range, and both clamps decided: moodRef * 1.5 and
\* smoothedBass / 255 are above 1, mood and impact are 1
C1_Witness ==
  /\ frames >= 1
  /\ timeRef > 5000 * LoudTicks
  /\ lastAudio \in MagnitudeInputs
  /\ (moodRef * 15) \div 10 > One
  /\ mood = One
  /\ smoothedBassRef > 255 * SbOne
  /\ normalizedBass = One

\* C2: after every frame tick hueShift lies in [0,1): it never equals or
\* exceeds 1
C2_HueShiftBelowOne == hueShiftRef >= 0 /\ hueShiftRef < One

\* C3: across every frame tick cameraAngle strictly increases, by
\* 0.001 + mood*0.005, and hueShift increases by 0.0002 + mood*0.001 modulo 1;
\* hueShift decreases only when the sum passed 1
C3_AccumulatorsAdvance ==
  [][FrameStep =>
       /\ cameraAngleRef' > cameraAngleRef
       /\ cameraAngleRef' - cameraAngleRef = 1000 + ((mood' * 5) \div 1000)
       /\ (hueShiftRef' - hueShiftRef - (200 + (mood' \div 1000))) % One = 0
       /\ (hueShiftRef' < hueShiftRef =>
             hueShiftRef + 200 + (mood' \div 1000) > One)]_vars

\* a frame at a raised mood has carried hueShift past 1 and wrapped it
C3_Witness ==
  /\ timeRef > 5000 * WarmTicks
  /\ mood > 0
  /\ hueShiftRef < 200 * WarmTicks
  /\ cameraAngleRef > 1000 * WarmTicks

\* C4: replacing the preset leaves the mood accumulator, the smoothed bass,
\* hueShift and cameraAngle as they are, and every frame tick from the
\* replacement on, the first one included, continues from them and takes
\* the generation branch of the stored preset's mode
C4_SignalsSurvivePresetChange ==
  [][/\ (config' # config =>
           UNCHANGED <<moodRef, smoothedBassRef, hueShiftRef, cameraAngleRef>>)
     /\ (FrameStep =>
           /\ lastBranch' = GenerationBranch(config')
           /\ smoothedBassRef' = SmoothBass(smoothedBassRef, lastAudio'.bass)
           /\ moodRef' = MoodStep(moodRef, lastAudio')
           /\ hueShiftRef' = HueStep(hueShiftRef, ExposeMood(moodRef'))
           /\ cameraAngleRef' = CamStep(cameraAngleRef, ExposeMood(moodRef')))]_vars

\* C5: once the scene has taken up the stored preset, the geometry of the
\* visible instance mesh is the one named by the preset's geometryType
C5_MeshGeometryFollowsPreset ==
  (~effectPending /\ particlesVisible) =>
     meshGeometry = GeometryFor(Field(config, "geometryType"))

\* every field present, mode and geometryType inside their enums
ValidPreset(p) ==
  /\ DOMAIN p = VisualConfigFields
  /\ p["mode"] \in Range(VisualizerMode)
  /\ p["geometryType"] \in Range(GeometryType)

\* C6: a preset with missing fields or fields outside the enums is never
\* stored nor applied: after a malformed generator result the stored preset
\* is a valid one
C6_MalformedPresetRejected == ValidPreset(config) /\ ValidPreset(sceneConfig)

\* C7: the sensitivity the frame loop uses (surface displacement) is inside
\* the documented range 0.1 .. 3.0
C7_SensitivityClamped ==
  (lastBranch = "SURFACE" /\ "sensitivity" \in DOMAIN sceneConfig) =>
     (sceneConfig["sensitivity"] >= 1 /\ sceneConfig["sensitivity"] <= 30)

\* the generator call failed: it threw, or gave empty or unparseable text
GeneratorFailed(o) ==
  o.kind = "throws" \/ (o.kind = "text" /\ (o.empty \/ ~o.wellFormed))

\* C8: generateVisualConfig never rejects, and resolves with DEFAULT_CONFIG
\* when the generator throws, returns empty text or returns unparseable text;
\* DEFAULT_CONFIG has every field and mode Orbit
C8_GeneratorFallsBackToDefault ==
  /\ lastResult.settled # "rejected"
  /\ GeneratorFailed(lastOutcome) =>
       /\ lastResult.settled = "resolved"
       /\ lastResult.value = DEFAULT_CONFIG
       /\ DOMAIN lastResult.value = VisualConfigFields
       /\ lastResult.value["mode"] = "ORBIT"

\* a call whose response text did not parse has settled and its result is
\* the stored preset
C8_Witness ==
  /\ lastOutcome.kind = "text"
  /\ ~lastOutcome.empty
  /\ ~lastOutcome.wellFormed
  /\ lastResult.settled = "resolved"
  /\ config = DEFAULT_CONFIG
  /\ ~isGenerating

\* every bin of the spectrum d holds v
AllBins(d, v) == \A i \in DOMAIN d : d[i] = v

\* C9: for a spectrum whose bins all hold the same value v, bass, mid,
\* treble and overall all equal v
C9_UniformSpectrumExact ==
  \A v \in 0..255 :
    (Len(dataArray) >= 1 /\ AllBins(dataArray, v)) =>
       /\ EqualsLevel(audioData.bass, v)
       /\ EqualsLevel(audioData.mid, v)
       /\ EqualsLevel(audioData.treble, v)
       /\ EqualsLevel(audioData.overallAmplitude, v)

\* analyse has reduced a spectrum whose bins all hold 255
C9_Witness ==
  /\ Len(dataArray) = FrequencyBinCount
  /\ AllBins(dataArray, 255)
  /\ audioData = Reduce(dataArray)
  /\ EqualsLevel(audioData.treble, 255)

\* C10: for an empty spectrum the reducer produces bass, mid, treble and
\* overall all equal to 0
C10_EmptySpectrumIsZero ==
  Len(dataArray) = 0 =>
     /\ EqualsLevel(audioData.bass, 0)
     /\ EqualsLevel(audioData.mid, 0)
     /\ EqualsLevel(audioData.treble, 0)
     /\ EqualsLevel(audioData.overallAmplitude, 0)

\* C11: for every spectrum length N of one bin or more, each of the three
\* bands holds at least one bin, so every band average the reducer computes
\* is an ordinary number (no average is a division by a zero bin count)
C11_EveryBandHasABin ==
  Len(dataArray) >= 1 =>
     /\ \A b \in {"bass", "mid", "treble"} : BandCounts(Len(dataArray))[b] >= 1
     /\ audioData.bass.kind = "number"
     /\ audioData.mid.kind = "number"
     /\ audioData.treble.kind = "number"

\* C12: in Ferrofluid mode every instance ends at a defined position whose
\* distance from the origin is at least the base radius 12, for every frame
\* and every pointer position (a tenth of a unit is allowed for rounding)
C12_FerrofluidOutsideBaseRadius ==
  lastBranch = "FERROFLUID" =>
     \A i \in ProbeInstances, rnd \in RandomDraws :
        /\ InstanceWith(i, rnd).finite
        /\ DistanceFromOrigin(InstanceWith(i, rnd)) >= 12 * Milli - 100

\* largest lattice edge k looked at (count = k * k * k)
MaxLattice == 3

\* the positions updateParticles writes for a mesh of count instances in
\* the state the latest frame tick left, when the random draws of the pass
\* for instance i are draws[i]
PositionsOf(count, draws) ==
  {LET q == updateParticles(i, count, timeRef, sceneConfig, lastAudio, mood,
                            mouseRef, draws[i])
   IN  <<q.finite, q.x, q.y, q.z>> : i \in 0..(count - 1)}

\* the coordinates of a lattice of k points per axis with spacing 3 that
\* is centered at the origin
CenteredCoords(k) == {((2 * j) - (k - 1)) * 1500 : j \in 0..(k - 1)}

\* C13: in Grid mode with bass = 0 and mood = 0, k*k*k instances occupy the
\* points of the k x k x k lattice of spacing 3 centered at the origin (for
\* count = 8: the corners of the cube of side 3 centered at the origin)
C13_GridLatticeCentered ==
  (lastBranch = "GRID" /\ lastAudio.bass = 0 /\ mood = 0) =>
     \A k \in 2..MaxLattice, rnd \in RandomDraws :
        PositionsOf(k * k * k, [i \in 0..(k * k * k - 1) |-> rnd]) =
          {<<TRUE, x, y, z>> : x \in CenteredCoords(k), y \in CenteredCoords(k),
                               z \in CenteredCoords(k)}

\* C14: when bass = 0 and mood = 0, every instance's color is
\* lerp(primary, secondary, frequencySample), with no white in it
C14_ColorIsPlainLerp ==
  (lastBranch \notin {"SURFACE", "NONE"} /\ lastAudio.bass = 0 /\ mood = 0) =>
     \A i \in ProbeInstances, rnd \in RandomDraws :
        LET nf == NormalizedFreq(lastAudio.frequencyData, i, PARTICLE_COUNT)
        IN  /\ InstanceWith(i, rnd).color = [p |-> Milli - nf, s |-> nf, w |-> 0]
            /\ InstanceWith(i, rnd).color.w = 0

\* the Math.random() draw of the camera block, in thousandths
CameraDraws == {0, 500, 999}

\* the camera target (camX, camY, camZ) the latest frame tick computed when
\* its Math.random() draw was r
CameraTarget(r) ==
  LET m == mood \div Milli
      nb == normalizedBass \div Milli
      mouseCamX == (mouseRef.x * 2) \div Milli
      mouseCamY == (mouseRef.y * 2) \div Milli
      baseRadius == 30 * Milli
      zoom == Mul(nb, 5 * Milli + m * 5)
      radius == baseRadius - zoom
      shake == ((r - 500) * (m * nb) * 2) \div One
  IN  [x |-> Mul(Sin(cameraAngleRef), radius) + mouseCamX,
       y |-> 5 * Milli + Sin(timeRef \div 2) * 2 + shake + mouseCamY,
       z |-> Mul(Cos(cameraAngleRef), radius)]

\* C15: a frame tick with the default preset and an all-zero spectrum
\* writes the same instance positions, scales, colors and camera target
\* whatever its random draws are
C15_ZeroSpectrumFrameDeterministic ==
  (sceneConfig = DEFAULT_CONFIG /\ lastAudio = Silence) =>
     /\ \A r1 \in CameraDraws, r2 \in CameraDraws : CameraTarget(r1) = CameraTarget(r2)
     /\ \A i \in ProbeInstances : \A d1 \in RandomDraws, d2 \in RandomDraws :
           InstanceWith(i, d1) = InstanceWith(i, d2)

\* C16: the rest-position array is never written after it is captured:
\* after any number of frames (and of scene rebuilds) it equals the copy of
\* the geometry's vertices taken at capture
C16_RestPositionsNeverWritten == originalPositions = RestVertices

\* a Surface frame has moved the live vertices away from the rest vertices
C16_Witness ==
  /\ lastBranch = "SURFACE"
  /\ frames >= 1
  /\ livePositions # RestVertices
  /\ originalPositions = RestVertices

\* C17: after every frame tick exactly one render path is visible: with the
\* frame's preset in Surface mode the surface mesh is visible, the instance
\* set hidden and updateParticles not run; in every other mode the instance
\* set is visible and regenerated and the surface mesh hidden
C17_ExactlyOneRenderPath ==
  /\ particlesVisible # surfaceVisible
  /\ Field(sceneConfig, "mode") = "SURFACE" =>
        (surfaceVisible /\ ~particlesVisible /\ lastBranch = "SURFACE")
  /\ Field(sceneConfig, "mode") # "SURFACE" =>
        (particlesVisible /\ ~surfaceVisible /\ lastBranch # "SURFACE")

\* the scene went to Surface mode and back to an instance mode
C17_Witness ==
  /\ changes >= 2
  /\ ~effectPending
  /\ Field(sceneConfig, "mode") = "ORBIT"
  /\ particlesVisible
  /\ ~surfaceVisible

\* C19: a frame tick that reads all-zero band energies is a full tick: time,
\* hueShift (modulo its wrap) and cameraAngle advance, one render path is
\* drawn, and mood and impact move toward 0 without passing it
C19_SilentFrameStillTicks ==
  [][(FrameStep /\ lastAudio' = Silence) =>
        /\ timeRef' = timeRef + 5000
        /\ cameraAngleRef' > cameraAngleRef
        /\ \E wrap \in {0, One} :
              hueShiftRef' + wrap = hueShiftRef + 200 + (mood' \div 1000)
        /\ particlesVisible' # surfaceVisible'
        /\ moodRef' >= 0 /\ moodRef' <= moodRef
        /\ moodRef > 0 => moodRef' < moodRef
        /\ smoothedBassRef' >= 0 /\ smoothedBassRef' <= smoothedBassRef
        /\ smoothedBassRef > 0 => smoothedBassRef' < smoothedBassRef
        /\ mood' <= mood
        /\ normalizedBass' <= normalizedBass]_vars

\* a silent frame has run on signals that loud frames had raised
C19_Witness ==
  /\ lastAudio = Silence
  /\ frames >= 1
  /\ moodRef > 0
  /\ smoothedBassRef > 0
  /\ normalizedBass > 0

\* C20: every frame tick reads all its preset fields from one preset, the
\* one its closure holds, and a step that replaces the stored preset changes
\* nothing a frame has read or written
C20_FrameReadsOnePreset ==
  [][/\ FrameStep => frameReads' = [f \in FieldsRead |-> Field(sceneConfig', f)]
     /\ config' # config =>
          (frameReads' = frameReads /\ sceneConfig' = sceneConfig
           /\ lastBranch' = lastBranch /\ livePositions' = livePositions)]_vars

\* the generator's preset replaced the initial one and a later frame read
\* every field from it
C20_Witness ==
  /\ ~effectPending
  /\ changes >= 1
  /\ config = ParsedFull
  /\ frameReads = [f \in FieldsRead |-> ParsedFull[f]]
  /\ frames >= 1

\* C18: within a frame tick every smoothed signal is written exactly once,
\* and no block of the frame reads a signal before that write: no signal is
\* written twice, none is read early, every block past a signal's writer
\* finds it written, and a finished frame has written all four
C18_SignalsWrittenOnceBeforeRead ==
  /\ readEarly = {}
  /\ \A sig \in Signals : written[sig] <= 1
  /\ pc = 0 => \A sig \in Signals : written[sig] = 1
  /\ pc \in DOMAIN FrameBlocks =>
        \A sig \in Reads(FrameBlocks[pc]) : written[sig] = 1

\* C21: the frame loop stops at the cleanup and never doubles: at most one
\* animate callback is pending, a pending callback belongs to the scene
\* built last (every earlier scene's cleanup has run) and is the one
\* frameIdRef names, and none is pending once the component is unmounted
C21_OneLiveFrameLoop ==
  /\ Cardinality(scheduledFrames) <= 1
  /\ \A c \in scheduledFrames : c.loop = loop /\ c.id = frameIdRef
  /\ ~mounted => scheduledFrames = {}

\* the scene was rebuilt for a changed preset, frames ran, and the component
\* was unmounted
C21_Witness ==
  /\ ~mounted
  /\ loop >= 1
  /\ frames >= 1
  /\ scheduledFrames = {}

\* C22: the reducer puts every bin of the spectrum it read into exactly one
\* band, bass below floor(0.1 N), mid from there below floor(0.5 N), treble
\* from there on, so the three band sums add up to the sum behind the
\* overall amplitude, in the loop and in the record analyse stored
C22_BandsPartitionTheSpectrum ==
  LET n == Len(dataArray)
      s == Sums(dataArray)
  IN  /\ \A i \in 0..(n - 1) :
            /\ Cardinality({b \in {"bass", "mid", "treble"} : BandOf(i, n) = b}) = 1
            /\ BandOf(i, n) = "bass" <=> i < n \div 10
            /\ BandOf(i, n) = "mid" <=> (i >= n \div 10 /\ i < n \div 2)
            /\ BandOf(i, n) = "treble" <=> i >= n \div 2
      /\ s.bassSum + s.midSum + s.trebleSum = s.sum
      /\ audioData.bass.num + audioData.mid.num + audioData.treble.num
           = audioData.overallAmplitude.num

\* analyse has reduced a 256-bin spectrum with energy in all three bands
C22_Witness ==
  /\ Len(dataArray) = 256
  /\ audioData.frequencyData = dataArray
  /\ audioData.bass.num > 0
  /\ audioData.mid.num > audioData.bass.num
  /\ audioData.treble.num > audioData.mid.num
  /\ audioData.overallAmplitude.num < 255 * 256

\* the preset cycleMode(direction) stores when the stored preset is cfg
ModeCycled(cfg, direction) == Spread(cfg, "mode", CycledMode(cfg, direction))

\* C23: for the stored preset, cycleMode('right') yields the next mode of
\* the order Orbit, Wave, Grid, Chaos, Ferrofluid, Surface (Orbit after
\* Surface), cycleMode('left') the previous one, right-then-left and
\* left-then-right give the preset back, six rights give it back, and no
\* field other than mode differs
C23_CycleModeIsCyclicShift ==
  LET modes == VisualizerMode
      r1 == ModeCycled(config, "right")
      r2 == ModeCycled(r1, "right")
      r3 == ModeCycled(r2, "right")
      r4 == ModeCycled(r3, "right")
      r5 == ModeCycled(r4, "right")
      r6 == ModeCycled(r5, "right")
  IN  /\ \E i \in 1..6 :
            /\ modes[i] = Field(config, "mode")
            /\ CycledMode(config, "right") = modes[(i % 6) + 1]
            /\ CycledMode(config, "left") = modes[((i + 4) % 6) + 1]
      /\ ModeCycled(r1, "left") = config
      /\ ModeCycled(ModeCycled(config, "left"), "right") = config
      /\ r6 = config
      /\ \A f \in DOMAIN config \ {"mode"} : r1[f] = config[f]

\* C24: isGenerating rises only in a handleGenerate call whose prompt is not
\* blank, and that step stores no preset; while it is TRUE no preset is
\* stored until the step that sets it back to FALSE, which stores exactly
\* one preset, the generator's parsed result or DEFAULT_CONFIG; and every
\* rise is followed by that fall, whatever the generator did
C24_GenerationAlwaysCompletes ==
  /\ [][(~isGenerating /\ isGenerating') =>
          (~Blank(prompt) /\ genPending' /\ config' = config /\ changes' = changes)]_vars
  /\ [][(isGenerating /\ isGenerating') => (config' = config /\ changes' = changes)]_vars
  /\ [][(isGenerating /\ ~isGenerating') =>
          /\ changes' = changes + 1
          /\ ~genPending'
          /\ config' = IF GeneratorFailed(lastOutcome') THEN DEFAULT_CONFIG
                        ELSE lastOutcome'.doc]_vars
  /\ [][Blank(prompt) => (isGenerating' = isGenerating /\ config' = config)]_vars
  /\ (isGenerating ~> ~isGenerating)

\* a generation whose generator threw has completed: DEFAULT_CONFIG is
\* stored and isGenerating is FALSE again
C24_Witness ==
  /\ lastOutcome.kind = "throws"
  /\ ~isGenerating
  /\ ~genPending
  /\ config = DEFAULT_CONFIG
  /\ changes >= 1
  /\ ~Blank(prompt)

\* a pointer whose projection (200, 0) is farther than 10 from every instance
PointerAway == [x |-> 10 * One, y |-> 0]

\* C25 for instance i and the random draws rnd: free is the instance with the pointer away, dist the
\* XY distance from it to the pointer's projection.  Below 10 the instance
\* is defined, lies (1 - dist/10) * 5 from free and farther from the
\* pointer, keeps z, has 1.5 times the scale and the color lerped 0.3 toward
\* white; from 10 on it equals free.  Two thousandths are allowed for
\* rounding, and for the moved length the share force / dist that the
\* rounding of dist to a thousandth can cause
PointerEffectAsSpecified(i, rnd) ==
  LET q == InstanceWith(i, rnd)
      free == InstanceUnder(i, PointerAway, rnd)
      mouseWorldX == (mouseRef.x * 20) \div Milli
      mouseWorldY == (mouseRef.y * 20) \div Milli
      dist == Hypot(free.x - mouseWorldX, free.y - mouseWorldY)
      force == (Milli - (dist \div 10)) * 5
  IN  IF dist < 10 * Milli
      THEN /\ q.finite
           /\ Abs(Hypot(q.x - free.x, q.y - free.y) - force) * dist <= 2 * dist + force
           /\ Hypot(q.x - mouseWorldX, q.y - mouseWorldY) >= dist
           /\ q.z = free.z
           /\ Abs(q.scale - ((free.scale * 3) \div 2)) <= 2
           /\ q.color = LerpWhite(free.color, 300)
      ELSE q = free

\* C25: in every non-Surface mode the pointer acts on an instance exactly
\* when the instance is closer than 10 to the pointer's projection, and
\* then as specified
C25_PointerActsOnlyWithinRadius ==
  lastBranch \notin {"SURFACE", "NONE"} =>
     \A i \in ProbeInstances, rnd \in RandomDraws : PointerEffectAsSpecified(i, rnd)

\* the scalars the latest frame tick computed for surface vertex i
VertexScale(i) ==
  SurfaceScale(i, originalPositions[i], timeRef, sceneConfig, lastAudio, mood,
               mouseRef)

\* C26: after a Surface frame every live vertex is its rest vertex times
\* totalScale = displacement + mouseFactor, totalScale is a number above 0,
\* and mouseFactor lies in [0, 2] and is 0 when the pointer's projection is
\* 8 or more away
C26_SurfaceScalePositive ==
  lastBranch = "SURFACE" =>
     \A i \in DOMAIN originalPositions :
        LET sc == VertexScale(i)
            o == originalPositions[i]
        IN  /\ sc.finite
            /\ sc.totalScale > 0
            /\ sc.totalScale = sc.displacement + sc.mouseFactor
            /\ sc.mouseFactor >= 0
            /\ sc.mouseFactor <= 2 * Milli
            /\ sc.distToMouse >= 8 * Milli => sc.mouseFactor = 0
            /\ livePositions[i] =
                 [finite |-> TRUE, x |-> Mul(o.x, sc.totalScale),
                  y |-> Mul(o.y, sc.totalScale), z |-> Mul(o.z, sc.totalScale)]

\* C27: after any sequence of Use Mic, Upload and Change Source at most one
\* audio analysis loop is scheduled, and once the page is unmounted no
\* analysis loop is left running
C27_OneAnalysisLoop ==
  /\ Cardinality(analysisLoops) <= 1
  /\ (~mounted => analysisLoops = {})

\* C28: at most one audio source node is connected to the analyser, it is the
\* node held in sourceNodeRef, and its kind is the current sourceType
C28_OneConnectedSource ==
  /\ Cardinality(connected) <= 1
  /\ connected \subseteq {sourceNodeRef}
  /\ (connected # {} => sourceNodeRef.kind = sourceType)

\* C29: isPlaying is true only while sourceType is 'mic' or 'file', and after
\* Change Source it stays false until a new source is selected, whatever
\* earlier play() or getUserMedia() call completes in between
C29_PlayingOnlyWithChosenSource ==
  isPlaying => (sourceType \in {"mic", "file"} /\ sourceChosen)

\* C30: the pointer repulsion never divides by a zero distance: whatever the
\* frame, mode, index and pointer (the initial pointer at the origin
\* included), the position written for an instance is made of numbers
C30_RepulsionNeverDividesByZero ==
  lastBranch \notin {"SURFACE", "NONE"} =>
     \A i \in ProbeInstances, rnd \in RandomDraws : InstanceWith(i, rnd).finite

====
